---- MODULE Spec2Model ----
(***************************************************************************)
(* A model of binverse (Binary Versioned Serialization): the varint codec, *)
(* the primitive and container codecs, the Serializer / Deserializer       *)
(* streams and the codec that #[serializable] generates for a struct.      *)
(*                                                                         *)
(* Bytes are numbers 0..255 and a stream is a sequence of bytes.  A u64 is *)
(* a vector of 64 bits (bit 1 is the least significant), because the       *)
(* model checker's integers are narrower than 64 bits.                     *)
(***************************************************************************)
EXTENDS Integers, Sequences, FiniteSets, TLC

VARIABLES
    vpc,        \* varint scenario: "start", "written", "source", "read"
    vx,         \* the u64 handed to varint::write
    vsink,      \* the bytes in the cursor varint::write wrote to / read reads from
    vtail,      \* bytes that follow the varint in the source
    vres,       \* the result of varint::read
    cpc,        \* stream scenario: where the program is
    overflow_checks,  \* the macro crate is built with overflow checks
    wty,        \* the type as the writing program declares it
    rty,        \* the type as the reading program declares it
    wval,       \* the value that is serialized
    wrev,       \* the revision given to Serializer::new
    sink,       \* the Serializer's writer
    dsrc,       \* the Deserializer's reader: the bytes not yet read
    drev,       \* the Deserializer's revision
    dres,       \* the result of Deserializer::deserialize
    apc,        \* array scenario: where <[T; N]>::deserialize is
    aN,         \* the N of [T; N]
    asrc,       \* the reader's bytes not yet read
    initialized_to,  \* InitializingArray::initialized_to
    inner,      \* InitializingArray::inner, one entry per slot
    drops,      \* the calls of T's drop so far, in order
    ares,       \* what deserialize returned
    hdr,        \* stream scenario: how the program opens its streams
    zpc,        \* size scenario: where the program is
    zsb,        \* the SizeBytes policy
    zsize,      \* the size given to write_size, a u64
    zty,        \* the type of the value given to serialize_sized
    zval,       \* the value given to serialize_sized
    zsink,      \* the Serializer's writer
    zres        \* what read_size / deserialize_sized returned

varintVars == <<vpc, vx, vsink, vtail, vres>>
codecVars == <<cpc, overflow_checks, wty, rty, wval, wrev, sink, dsrc, drev, dres, hdr>>
sizeVars == <<zpc, zsb, zsize, zty, zval, zsink, zres>>

arrayVars == <<apc, aN, asrc, initialized_to, inner, drops, ares>>

vars == <<vpc, vx, vsink, vtail, vres,
          cpc, overflow_checks, wty, rty, wval, wrev, sink, dsrc, drev, dres,
          apc, aN, asrc, initialized_to, inner, drops, ares,
          hdr, zpc, zsb, zsize, zty, zval, zsink, zres>>

-----------------------------------------------------------------------------
(* u64 arithmetic on bit vectors *)

U64Bits == 64

Bit == {0, 1}

Pow2(n) == 2 ^ n

U64Zero == [i \in 1..U64Bits |-> 0]

\* n as u64, for a number the model checker can hold (n < 2^31)
U64FromNat(n) == [i \in 1..U64Bits |-> IF i <= 31 THEN (n \div Pow2(i - 1)) % 2 ELSE 0]

\* u64::from_le_bytes for up to 8 bytes, least significant byte first
U64FromLeBytes(bs) ==
    [i \in 1..U64Bits |->
        LET k == ((i - 1) \div 8) + 1
        IN  IF k <= Len(bs) THEN (bs[k] \div Pow2((i - 1) % 8)) % 2 ELSE 0]

\* x >> s
U64Shr(x, s) == [i \in 1..U64Bits |-> IF i + s <= U64Bits THEN x[i + s] ELSE 0]

\* x << s, the bits shifted past bit 64 are lost
U64Shl(x, s) == [i \in 1..U64Bits |-> IF i - s >= 1 THEN x[i - s] ELSE 0]

\* x | y
U64Or(x, y) == [i \in 1..U64Bits |-> IF x[i] = 1 \/ y[i] = 1 THEN 1 ELSE 0]

\* x as u8: the low 8 bits
U64AsU8(x) ==
    x[1] + 2 * x[2] + 4 * x[3] + 8 * x[4] + 16 * x[5] + 32 * x[6] + 64 * x[7] + 128 * x[8]

\* x >= 0x80
U64Ge0x80(x) == \E i \in 8..U64Bits : x[i] = 1

\* the value of x when it fits the model checker's integers, -1 otherwise
U64ToNat(x) ==
    IF \E i \in 31..U64Bits : x[i] = 1 THEN -1
    ELSE LET RECURSIVE Sum(_)
             Sum(i) == IF i > 30 THEN 0 ELSE x[i] * Pow2(i - 1) + Sum(i + 1)
         IN  Sum(1)

\* b | 0x80 and b & 0x7f on bytes
ByteOr0x80(b) == IF b >= 128 THEN b ELSE b + 128
ByteAnd0x7f(b) == b % 128

-----------------------------------------------------------------------------
(* varint.rs *)

MAX_LEN == 10

\* the outcome of a read: a value and the bytes left in the source, or an error
ReadOk(v, rest) == [ok |-> TRUE, val |-> v, rest |-> rest, err |-> "None"]
ReadErr(e, rest) == [ok |-> FALSE, val |-> U64Zero, rest |-> rest, err |-> e]

\* varint::write with the shift of the loop taken as a whole byte (x >>= 8)
RECURSIVE varint_write_shift8(_)
varint_write_shift8(x) ==
    IF U64Ge0x80(x)
    THEN <<ByteOr0x80(U64AsU8(x))>> \o varint_write_shift8(U64Shr(x, 8))
    ELSE <<U64AsU8(x)>>

\* varint::write emitting one 6-bit group per byte (x >= 0x40, x >>= 6)
RECURSIVE varint_write_6bit(_)
varint_write_6bit(x) ==
    IF \E i \in 7..U64Bits : x[i] = 1
    THEN <<ByteOr0x80(U64AsU8(x) % 64)>> \o varint_write_6bit(U64Shr(x, 6))
    ELSE <<U64AsU8(x)>>

\* varint::write, were a byte of 7 bits given a continuation (x >= 0x40)
RECURSIVE varint_write_padded(_)
varint_write_padded(x) ==
    IF \E i \in 7..U64Bits : x[i] = 1
    THEN <<ByteOr0x80(U64AsU8(x))>> \o varint_write_padded(U64Shr(x, 7))
    ELSE <<U64AsU8(x)>>

\* varint::write(x, w): the bytes written to w
RECURSIVE varint_write(_)
varint_write(x) ==
    IF U64Ge0x80(x)
    THEN <<ByteOr0x80(U64AsU8(x))>> \o varint_write(U64Shr(x, 7))
    ELSE <<U64AsU8(x)>>

\* varint::read without the check of the 10th byte
RECURSIVE varint_read_loop_unchecked(_, _, _, _)
varint_read_loop_unchecked(src, i, x, s) ==
    IF i >= MAX_LEN THEN ReadErr("VarIntOverflow", src)
    ELSE IF src = <<>> THEN ReadErr("IO", src)
    ELSE LET b == Head(src)
             r == Tail(src)
         IN  IF b < 128
             THEN ReadOk(U64Or(x, U64Shl(U64FromNat(b), s)), r)
             ELSE varint_read_loop_unchecked(r, i + 1,
                                   U64Or(x, U64Shl(U64FromNat(ByteAnd0x7f(b)), s)), s + 7)

\* the loop of varint::read from iteration i on, with accumulator x and shift s
RECURSIVE varint_read_loop(_, _, _, _)
varint_read_loop(src, i, x, s) ==
    IF i >= MAX_LEN THEN ReadErr("VarIntOverflow", src)
    ELSE IF src = <<>> THEN ReadErr("IO", src)
    ELSE LET b == Head(src)
             r == Tail(src)
         IN  IF b < 128
             THEN IF i = MAX_LEN - 1 /\ b > 1
                  THEN ReadErr("VarIntOverflow", r)
                  ELSE ReadOk(U64Or(x, U64Shl(U64FromNat(b), s)), r)
             ELSE varint_read_loop(r, i + 1,
                                   U64Or(x, U64Shl(U64FromNat(ByteAnd0x7f(b)), s)), s + 7)

\* varint::read(r)
varint_read(src) == varint_read_loop(src, 0, U64Zero, 0)

-----------------------------------------------------------------------------
(* The varint scenario: a value is written to a cursor and read back, or a *)
(* crafted byte sequence is read.                                          *)

\* 2^k - 1: the low k bits set
U64LowBits(k) == [i \in 1..U64Bits |-> IF i <= k THEN 1 ELSE 0]
\* 2^k
U64OneBit(k) == [i \in 1..U64Bits |-> IF i = k + 1 THEN 1 ELSE 0]

\* the values of test-suite/tests/varint.rs
VarintTestValues ==
    { U64FromLeBytes(<<120, 86, 52, 18, 239, 205, 171, 255>>),
      U64FromLeBytes(<<187, 170, 255, 0, 120, 86, 52, 18>>),
      U64FromLeBytes(<<239, 205, 171, 255, 170, 255, 0, 0>>),
      U64FromLeBytes(<<0, 120, 86, 52, 239, 205, 171, 18>>),
      U64FromLeBytes(<<254, 255, 255, 255, 255, 255, 255, 255>>) }

VarintInputs ==
    {U64LowBits(k) : k \in 0..U64Bits} \cup {U64OneBit(k) : k \in 0..(U64Bits - 1)}
    \cup {U64Or(U64OneBit(k), U64FromNat(1)) : k \in 0..(U64Bits - 1)}
    \cup VarintTestValues

\* bytes with the continuation bit, bytes without it
ContBytes == {128, 213, 255}
LastBytes == {0, 1, 2, 64, 127}

MaxCont == 11

Repeat(b, n) == [i \in 1..n |-> b]

\* n continuation bytes, then nothing or one byte without the continuation bit
CraftedSources ==
    {Repeat(c, n) : c \in ContBytes, n \in 0..MaxCont}
    \cup {Repeat(c, n) \o <<l>> : c \in ContBytes, n \in 0..MaxCont, l \in LastBytes}
    \cup {Repeat(128, n) \o <<c>> \o Repeat(128, m) \o <<l>> :
              c \in ContBytes, n \in {8, 9}, m \in {0, 1}, l \in LastBytes}

Tails == {<<>>, <<0>>, <<255, 1>>}

\* the stream scenario is not run
CodecIdle ==
    /\ cpc = "idle" /\ overflow_checks = FALSE
    /\ wty = [k |-> "none"] /\ rty = [k |-> "none"]
    /\ wval = <<>> /\ wrev = 0
    /\ sink = [out |-> <<>>, bounded |-> FALSE, cap |-> 0, err |-> "None",
               limit |-> "None", found |-> U64Zero, calls |-> 0, failAt |-> 0]
    /\ dsrc = <<>> /\ drev = 0
    /\ dres = [ok |-> FALSE, val |-> <<>>, rest |-> <<>>, err |-> "None"]
    /\ hdr = [w |-> "new", r |-> "new", revision |-> 0]

\* the size scenario is not run
SizeIdle ==
    /\ zpc = "idle" /\ zsb = "Var" /\ zsize = U64Zero /\ zval = <<>>
    /\ zty = [k |-> "string"]
    /\ zsink = [out |-> <<>>, bounded |-> FALSE, cap |-> 0, err |-> "None",
                limit |-> "None", found |-> U64Zero, calls |-> 0, failAt |-> 0]
    /\ zres = ReadErr("None", <<>>)

ArrayIdle ==
    /\ apc = "idle" /\ aN = 0 /\ asrc = <<>> /\ initialized_to = 0
    /\ inner = <<>> /\ drops = <<>>
    /\ ares = [ok |-> FALSE, val |-> <<>>, rest |-> <<>>, err |-> "None"]

VarintInit ==
    /\ CodecIdle /\ ArrayIdle /\ SizeIdle
    /\ vres = ReadErr("None", <<>>)
    /\ vtail \in Tails
    /\ \/ /\ vpc = "start"
          /\ vx \in VarintInputs
          /\ vsink = <<>>
       \/ /\ vpc = "source"
          /\ vx = U64Zero
          /\ vsink \in CraftedSources

\* varint::write(x, &mut c)
VarintWrite ==
    /\ vpc = "start"
    /\ vsink' = varint_write(vx)
    /\ vpc' = "written"
    /\ UNCHANGED <<vx, vtail, vres, codecVars, arrayVars, sizeVars>>

\* c.rewind(); varint::read(&mut c)
VarintRead ==
    /\ vpc \in {"written", "source"}
    /\ vres' = varint_read(vsink \o vtail)
    /\ vpc' = IF vpc = "written" THEN "reread" ELSE "read"
    /\ UNCHANGED <<vx, vsink, vtail, codecVars, arrayVars, sizeVars>>

VarintNext == VarintWrite \/ VarintRead

SpecVarint == VarintInit /\ [][VarintNext]_vars

\* the bytes varint::read is given
VarintSource == vsink \o vtail

\* C8: reading back the bytes varint::write produced for x returns x, without
\* an error, for every u64 x.
VarintRoundTrip ==
    vpc = "reread" => vres.ok /\ vres.val = vx

VarintRoundTripWitness ==
    vpc = "reread" /\ vx = U64LowBits(U64Bits) /\ vres.ok /\ Len(vsink) = MAX_LEN

\* the 10th byte is read: the nine bytes before it carry the continuation bit
TenthByteRead ==
    /\ Len(VarintSource) >= MAX_LEN
    /\ \A i \in 1..(MAX_LEN - 1) : VarintSource[i] >= 128

\* C9: varint::read fails with VarIntOverflow when the 10th byte it reads is
\* greater than 1 (with or without the continuation bit), so also when the
\* first 10 bytes all carry the continuation bit; it returns no value then.
VarintOverflowRejected ==
    (vpc \in {"read", "reread"} /\ TenthByteRead /\ VarintSource[MAX_LEN] > 1)
        => (~vres.ok /\ vres.err = "VarIntOverflow")

VarintOverflowWitness ==
    /\ vpc = "read" /\ TenthByteRead
    /\ VarintSource[MAX_LEN] = 2
    /\ vres.err = "VarIntOverflow"

\* C10: varint::write emits between 1 and 10 bytes; every byte but the last
\* has its high bit set and the last has it clear.
VarintLengthBound ==
    vpc = "written" =>
        /\ Len(vsink) >= 1 /\ Len(vsink) <= MAX_LEN
        /\ \A i \in 1..(Len(vsink) - 1) : vsink[i] >= 128
        /\ vsink[Len(vsink)] < 128

VarintLengthWitness ==
    vpc = "written" /\ Len(vsink) = MAX_LEN /\ vx = U64OneBit(U64Bits - 1)

-----------------------------------------------------------------------------
(* Values and types.  A type is a record tagged by k; a number is a vector *)
(* of 8 * w bits (two's complement for the signed types, the IEEE bit      *)
(* pattern for floats), an Option is <<>> or <<x>>, an array, a tuple, a   *)
(* Vec and a struct are sequences, a String is the sequence of its bytes,  *)
(* and a HashMap is the sequence of its pairs in its iteration order.      *)

TBool == [k |-> "bool"]
TNum(w) == [k |-> "num", w |-> w]
TOption(t) == [k |-> "option", t |-> t]
TArray(t, n) == [k |-> "array", t |-> t, n |-> n]
TTuple(ts) == [k |-> "tuple", ts |-> ts]
TString == [k |-> "string"]
TVec(t) == [k |-> "vec", t |-> t]
TMap(kt, vt) == [k |-> "map", kt |-> kt, vt |-> vt]
TStruct(fields) == [k |-> "struct", fields |-> fields]

\* a field of a #[serializable] struct: its modifiers from the outermost in,
\* its inner type and its SizeBytes attribute ("None" when it has none)
Field(mods, ty, sb) == [mods |-> mods, ty |-> ty, sb |-> sb]
Added(rev) == [m |-> "Added", rev |-> rev]
Removed(rev) == [m |-> "Removed", rev |-> rev]

\* n as a number of w bytes (n as uN: the bits above the width are cut off)
NumFromNat(n, w) ==
    [i \in 1..(8 * w) |-> IF i <= 31 THEN (n \div Pow2(i - 1)) % 2 ELSE 0]

\* byte k (from 1, least significant first) of the bit vector x
ByteOfBits(x, k) ==
    LET b(j) == x[8 * (k - 1) + j]
    IN  b(1) + 2 * b(2) + 4 * b(3) + 8 * b(4) + 16 * b(5) + 32 * b(6) + 64 * b(7) + 128 * b(8)

\* to_le_bytes, were the most significant byte first
to_be_bytes(x, w) == [k \in 1..w |-> ByteOfBits(x, w + 1 - k)]

\* x.to_le_bytes()
to_le_bytes(x, w) == [k \in 1..w |-> ByteOfBits(x, k)]

\* from_le_bytes, were the most significant byte first
from_be_bytes(bs) ==
    [i \in 1..(8 * Len(bs)) |->
        (bs[Len(bs) - ((i - 1) \div 8)] \div Pow2((i - 1) % 8)) % 2]

\* <$t>::from_le_bytes(b)
from_le_bytes(bs) ==
    [i \in 1..(8 * Len(bs)) |-> (bs[((i - 1) \div 8) + 1] \div Pow2((i - 1) % 8)) % 2]

\* the value of a bit vector, capped at 2^30 (enough to compare a revision
\* with the revisions a declaration names)
SatCap == Pow2(30)
NumToNatSat(x) ==
    IF \E i \in 31..Len(x) : x[i] = 1 THEN SatCap
    ELSE LET n == IF Len(x) < 30 THEN Len(x) ELSE 30
             RECURSIVE Sum(_)
             Sum(i) == IF i > n THEN 0 ELSE x[i] * Pow2(i - 1) + Sum(i + 1)
         IN  Sum(1)

-----------------------------------------------------------------------------
(* streams.rs: the write side.  A sink is the bytes written so far, the    *)
(* room it has (a Vec has no limit) and the error that ended the writing.  *)

\* limit and found are the fields of the error SizeExceeded { limit, found }
VecSink == [out |-> <<>>, bounded |-> FALSE, cap |-> 0, err |-> "None",
            limit |-> "None", found |-> U64Zero, calls |-> 0, failAt |-> 0]
SliceSink(n) == [out |-> <<>>, bounded |-> TRUE, cap |-> n, err |-> "None",
                 limit |-> "None", found |-> U64Zero, calls |-> 0, failAt |-> 0]

\* a writer whose k-th write_all of a buffer that is not empty returns an
\* error and writes nothing, and which takes every other write (calls counts
\* the write_all calls made on the writer)
FailingSink(k) == [VecSink EXCEPT !.failAt = k]

\* Serializer::write, were the error of write_all dropped and the next
\* writes made all the same
s_write_retry(w, buf) ==
    IF buf = <<>> THEN w
    ELSE IF w.failAt = w.calls + 1 THEN [w EXCEPT !.calls = @ + 1, !.err = "IO"]
    ELSE IF ~w.bounded \/ Len(w.out) + Len(buf) <= w.cap
    THEN [w EXCEPT !.out = @ \o buf, !.calls = @ + 1]
    ELSE [w EXCEPT !.out = @ \o SubSeq(buf, 1, w.cap - Len(w.out)), !.err = "IO",
                   !.calls = @ + 1]

\* Serializer::write: self.w.write_all(buf)?
s_write(w, buf) ==
    IF w.err # "None" \/ buf = <<>> THEN w
    ELSE IF w.failAt = w.calls + 1 THEN [w EXCEPT !.calls = @ + 1, !.err = "IO"]
    ELSE IF ~w.bounded \/ Len(w.out) + Len(buf) <= w.cap
    THEN [w EXCEPT !.out = @ \o buf, !.calls = @ + 1]
    ELSE [w EXCEPT !.out = @ \o SubSeq(buf, 1, w.cap - Len(w.out)), !.err = "IO",
                   !.calls = @ + 1]

\* varint::write on the writer: one write_all for each byte
RECURSIVE write_each(_, _)
write_each(w, bytes) ==
    IF bytes = <<>> THEN w ELSE write_each(s_write(w, <<Head(bytes)>>), Tail(bytes))

\* x > y on u64
U64Gt(x, y) ==
    \E i \in 1..U64Bits :
        x[i] = 1 /\ y[i] = 0 /\ \A j \in (i + 1)..U64Bits : x[j] = y[j]

\* let max_size = match sb { .. }: u8::MAX, u16::MAX, u32::MAX, u64::MAX as usize
max_size(sb) ==
    CASE sb = "One" -> U64LowBits(8)
      [] sb = "Two" -> U64LowBits(16)
      [] sb = "Four" -> U64LowBits(32)
      [] sb \in {"Eight", "Var"} -> U64LowBits(64)

\* size > max_size in Serializer::write_size
size_exceeds(sb, size) == U64Gt(size, max_size(sb))

\* write_size, were the test size >= max_size
write_size_ge(w, sb, size) ==
    IF w.err # "None" THEN w
    ELSE IF size = max_size(sb) \/ size_exceeds(sb, size)
    THEN [w EXCEPT !.err = "SizeExceeded", !.limit = sb, !.found = size]
    ELSE CASE sb = "One" -> s_write(w, to_le_bytes(size, 1))
           [] sb = "Two" -> s_write(w, to_le_bytes(size, 2))
           [] sb = "Four" -> s_write(w, to_le_bytes(size, 4))
           [] sb = "Eight" -> s_write(w, to_le_bytes(size, 8))
           [] sb = "Var" -> write_each(w, varint_write(size))

\* write_size, were Four written as the two bytes of a u16
write_size_four_as_u16(w, sb, size) ==
    IF w.err # "None" THEN w
    ELSE IF size_exceeds(sb, size)
    THEN [w EXCEPT !.err = "SizeExceeded", !.limit = sb, !.found = size]
    ELSE CASE sb = "One" -> s_write(w, to_le_bytes(size, 1))
           [] sb = "Two" -> s_write(w, to_le_bytes(size, 2))
           [] sb = "Four" -> s_write(w, to_le_bytes(size, 2))
           [] sb = "Eight" -> s_write(w, to_le_bytes(size, 8))
           [] sb = "Var" -> write_each(w, varint_write(size))

\* write_size, were the size written before it is compared with the maximum
write_size_check_last(w, sb, size) ==
    IF w.err # "None" THEN w
    ELSE LET w1 == CASE sb = "One" -> s_write(w, to_le_bytes(size, 1))
                     [] sb = "Two" -> s_write(w, to_le_bytes(size, 2))
                     [] sb = "Four" -> s_write(w, to_le_bytes(size, 4))
                     [] sb = "Eight" -> s_write(w, to_le_bytes(size, 8))
                     [] sb = "Var" -> write_each(w, varint_write(size))
         IN  IF size_exceeds(sb, size)
             THEN [w1 EXCEPT !.err = "SizeExceeded", !.limit = sb, !.found = size]
             ELSE w1

\* Serializer::write_size; size is a usize of 64 bits, and size as u8 .. u64
\* keeps its low bytes
write_size(w, sb, size) ==
    IF w.err # "None" THEN w
    ELSE IF size_exceeds(sb, size)
    THEN [w EXCEPT !.err = "SizeExceeded", !.limit = sb, !.found = size]
    ELSE CASE sb = "One" -> s_write(w, to_le_bytes(size, 1))
           [] sb = "Two" -> s_write(w, to_le_bytes(size, 2))
           [] sb = "Four" -> s_write(w, to_le_bytes(size, 4))
           [] sb = "Eight" -> s_write(w, to_le_bytes(size, 8))
           [] sb = "Var" -> write_each(w, varint_write(size))

\* the macro invocation tuples! { A 0 B 1; ... }: for each arity from 2 to 17
\* the element index written for each type parameter, in order
tuples ==
    << <<0, 1>>,
       <<0, 1, 2>>,
       <<0, 1, 2, 3>>,
       <<0, 1, 2, 3, 4>>,
       <<0, 1, 2, 3, 4, 5>>,
       <<0, 1, 2, 3, 4, 5, 6>>,
       <<0, 1, 2, 3, 4, 5, 6, 7>>,
       <<0, 1, 2, 3, 4, 5, 6, 7, 8>>,
       <<0, 1, 2, 3, 4, 5, 6, 7, 8, 9>>,
       <<0, 1, 2, 3, 4, 5, 6, 7, 8, 9, 10>>,
       <<0, 1, 2, 3, 4, 5, 6, 7, 8, 9, 10, 11>>,
       <<0, 1, 2, 3, 4, 5, 6, 7, 8, 9, 10, 11, 11>>,
       <<0, 1, 2, 3, 4, 5, 6, 7, 8, 9, 10, 11, 11, 12>>,
       <<0, 1, 2, 3, 4, 5, 6, 7, 8, 9, 10, 11, 11, 12, 13>>,
       <<0, 1, 2, 3, 4, 5, 6, 7, 8, 9, 10, 11, 11, 12, 13, 14>>,
       <<0, 1, 2, 3, 4, 5, 6, 7, 8, 9, 10, 11, 11, 12, 13, 14, 15>> >>

\* the element indices the Serialize impl of a tuple of n elements writes
tuple_elems(n) == tuples[n - 1]

\* AttributedField::is_removed: only the outermost modifier counts
is_removed(f) == f.mods # <<>> /\ Head(f.mods).m = "Removed"

\* the fields the generated serialize writes: .filter(!is_removed)
serialized_fields(fields) ==
    SelectSeq([i \in 1..Len(fields) |-> i], LAMBDA i : ~is_removed(fields[i]))

\* SizedSerialize::size
size_of(v) == Len(v)

RECURSIVE Ser(_, _, _)
RECURSIVE SerElems(_, _, _)
RECURSIVE SerTuple(_, _, _, _)
RECURSIVE SerPairs(_, _, _, _)
RECURSIVE SerFields(_, _, _, _)
RECURSIVE serialize_sized_elems(_, _, _, _)

\* serialize_sized, were the length cast to the prefix's width unchecked
serialize_sized_unchecked(w, sb, ty, v) ==
    LET size == size_of(v)
        w1 == IF sb = "One" THEN s_write(w, <<size % 256>>)
              ELSE write_size(w, sb, U64FromNat(size))
    IN  IF w1.err # "None" THEN w1 ELSE serialize_sized_elems(ty, v, w1, size)

\* Serializer::serialize_sized
serialize_sized(w, sb, ty, v) ==
    LET size == size_of(v)
        w1 == write_size(w, sb, U64FromNat(size))
    IN  IF w1.err # "None" THEN w1 ELSE serialize_sized_elems(ty, v, w1, size)

\* ser_sized!, were the plain codec to use SizeBytes::Eight
ser_sized_eight(w, ty, v) == serialize_sized(w, "Eight", ty, v)

\* ser_sized!: Serialize for &str, String, &[T], Vec<T>, HashMap<K, V>
ser_sized(w, ty, v) == serialize_sized(w, "Var", ty, v)

\* for elem in self { elem.serialize(s)?; }
SerElems(ty, vs, w) ==
    IF vs = <<>> \/ w.err # "None" THEN w
    ELSE SerElems(ty, Tail(vs), Ser(ty, Head(vs), w))

\* $( self.$elem.serialize(s)?; )*
SerTuple(ts, v, elems, w) ==
    IF elems = <<>> \/ w.err # "None" THEN w
    ELSE SerTuple(ts, v, Tail(elems), Ser(ts[Head(elems) + 1], v[Head(elems) + 1], w))

\* for (k, v) in self.iter().take(size) { k.serialize(s)?; v.serialize(s)?; }
SerPairs(kt, vt, ps, w) ==
    IF ps = <<>> \/ w.err # "None" THEN w
    ELSE SerPairs(kt, vt, Tail(ps), Ser(vt, Head(ps)[2], Ser(kt, Head(ps)[1], w)))

\* the generated serialize: one statement per field that is not removed
SerFields(fields, idx, vals, w) ==
    IF idx = <<>> \/ w.err # "None" THEN w
    ELSE LET f == fields[Head(idx)]
             w1 == IF f.sb # "None"
                   THEN serialize_sized(w, f.sb, f.ty, Head(vals))
                   ELSE Ser(f.ty, Head(vals), w)
         IN  SerFields(fields, Tail(idx), Tail(vals), w1)

\* SizedSerialize::serialize_sized for String, Vec and HashMap
serialize_sized_elems(ty, v, w, size) ==
    CASE ty.k = "string" -> s_write(w, SubSeq(v, 1, size))
      [] ty.k = "vec" -> SerElems(ty.t, SubSeq(v, 1, size), w)
      [] ty.k = "map" -> SerPairs(ty.kt, ty.vt, SubSeq(v, 1, size), w)

\* Serialize::serialize
Ser(ty, v, w) ==
    IF w.err # "None" THEN w
    ELSE CASE ty.k = "bool" -> s_write(w, <<IF v THEN 1 ELSE 0>>)
           [] ty.k = "num" -> s_write(w, to_le_bytes(v, ty.w))
           [] ty.k = "option" ->
                IF v # <<>>
                THEN Ser(ty.t, v[1], Ser(TNum(1), NumFromNat(1, 1), w))
                ELSE Ser(TNum(1), NumFromNat(0, 1), w)
           [] ty.k = "array" -> SerElems(ty.t, v, w)
           [] ty.k = "tuple" -> SerTuple(ty.ts, v, tuple_elems(Len(ty.ts)), w)
           [] ty.k \in {"string", "vec", "map"} -> ser_sized(w, ty, v)
           [] ty.k = "struct" -> SerFields(ty.fields, serialized_fields(ty.fields), v, w)

-----------------------------------------------------------------------------
(* binverse_derive: the patterns of revisions in which a field is read *)

PatClosed(lo, hi) == [lo |-> lo, hi |-> hi, open |-> FALSE]
PatOpen(lo) == [lo |-> lo, hi |-> lo, open |-> TRUE]

AddPatPanic == [panic |-> TRUE, t |-> "Normal", rev |-> 0, pats |-> <<>>]
AddPatResult(t, rev, pats) == [panic |-> FALSE, t |-> t, rev |-> rev, pats |-> pats]

\* add_pat, were end_revision the revision itself instead of revision - 1
RECURSIVE add_pat_end_is_revision(_, _)
add_pat_end_is_revision(mods, oc) ==
    IF mods = <<>> THEN AddPatResult("Normal", 0, <<>>)
    ELSE LET outer == Head(mods)
             inner_result == add_pat_end_is_revision(Tail(mods), oc)
         IN  IF inner_result.panic THEN AddPatPanic
             ELSE IF outer.m = "Added"
             THEN IF inner_result.t = "Added" THEN AddPatPanic
                  ELSE IF inner_result.t = "Removed" /\ inner_result.rev >= outer.rev THEN AddPatPanic
                  ELSE AddPatResult("Added", outer.rev, inner_result.pats)
             ELSE IF inner_result.t = "Removed" THEN AddPatPanic
                  ELSE LET start_revision == IF inner_result.t = "Added" THEN inner_result.rev ELSE 0
                       IN  AddPatResult("Removed", outer.rev,
                               Append(inner_result.pats, PatClosed(start_revision, outer.rev)))

\* add_pat, were a modifier over the same modifier taken as over a plain type
RECURSIVE add_pat_chained(_, _)
add_pat_chained(mods, oc) ==
    IF mods = <<>> THEN AddPatResult("Normal", 0, <<>>)
    ELSE LET outer == Head(mods)
             inner_result == add_pat_chained(Tail(mods), oc)
         IN  IF inner_result.panic THEN AddPatPanic
             ELSE IF outer.m = "Added"
             THEN IF inner_result.t = "Removed" /\ inner_result.rev >= outer.rev
                  THEN AddPatPanic
                  ELSE AddPatResult("Added", outer.rev, inner_result.pats)
             ELSE LET start_revision ==
                          IF inner_result.t = "Added" THEN inner_result.rev ELSE 0
                  IN  IF outer.rev = 0
                      THEN IF oc THEN AddPatPanic
                           ELSE AddPatResult("Removed", outer.rev,
                                    Append(inner_result.pats, PatOpen(start_revision)))
                      ELSE AddPatResult("Removed", outer.rev,
                               Append(inner_result.pats,
                                      PatClosed(start_revision, outer.rev - 1)))

\* deserialize_patterns::add_pat over the modifiers from the outermost in.
\* oc (overflow checks): whether the macro crate is built with overflow checks, which
\* decides what revision - 1 does for Removed<0, _>: a panic, or u32::MAX
RECURSIVE add_pat(_, _)
add_pat(mods, oc) ==
    IF mods = <<>> THEN AddPatResult("Normal", 0, <<>>)
    ELSE LET outer == Head(mods)
             inner_result == add_pat(Tail(mods), oc)
         IN  IF inner_result.panic THEN AddPatPanic
             ELSE IF outer.m = "Added"
             THEN IF inner_result.t = "Added" THEN AddPatPanic
                  ELSE IF inner_result.t = "Removed" /\ inner_result.rev >= outer.rev THEN AddPatPanic
                  ELSE AddPatResult("Added", outer.rev, inner_result.pats)
             ELSE IF inner_result.t = "Removed" THEN AddPatPanic
                  ELSE LET start_revision == IF inner_result.t = "Added" THEN inner_result.rev ELSE 0
                       IN  IF outer.rev = 0
                           THEN IF oc THEN AddPatPanic
                                ELSE AddPatResult("Removed", outer.rev,
                                         Append(inner_result.pats, PatOpen(start_revision)))
                           ELSE AddPatResult("Removed", outer.rev,
                                    Append(inner_result.pats, PatClosed(start_revision, outer.rev - 1)))

\* AttributedField::deserialize_patterns
deserialize_patterns(f, oc) ==
    LET r == add_pat(f.mods, oc)
    IN  IF r.t = "Added" THEN Append(r.pats, PatOpen(r.rev)) ELSE r.pats

\* the macro panics on the field
macro_panics(f, oc) == add_pat(f.mods, oc).panic

\* the generated match compiles: a range pattern lo..=hi needs lo <= hi
patterns_compile(f, oc) ==
    \A i \in 1..Len(deserialize_patterns(f, oc)) :
        LET p == deserialize_patterns(f, oc)[i] IN p.open \/ p.lo <= p.hi

\* #[serializable] yields a codec for the struct
codec_generated(fields, oc) ==
    \A i \in 1..Len(fields) :
        ~macro_panics(fields[i], oc) /\ patterns_compile(fields[i], oc)

\* match d.revision() { #(#patterns)|* => ..., _ => ... }: the first arm is taken
revision_matches(pats, rev) ==
    \E i \in 1..Len(pats) : rev >= pats[i].lo /\ (pats[i].open \/ rev <= pats[i].hi)

\* reads_field, were a removed field never read
reads_field_skip_removed(f, rev, oc) ==
    LET pats == deserialize_patterns(f, oc)
    IN  ~is_removed(f) /\ (pats = <<>> \/ revision_matches(pats, rev))

\* the generated deserialize reads the field from the wire
reads_field(f, rev, oc) ==
    LET pats == deserialize_patterns(f, oc)
    IN  pats = <<>> \/ revision_matches(pats, rev)

-----------------------------------------------------------------------------
(* streams.rs, primitives.rs: the read side.  A read yields a value and    *)
(* the rest of the source, or an error.                                    *)

DeOk(v, rest) == [ok |-> TRUE, val |-> v, rest |-> rest, err |-> "None"]
DeErr(e, rest) == [ok |-> FALSE, val |-> <<>>, rest |-> rest, err |-> e]

\* Deserializer::read, were the reader to take one byte more than the buffer
d_read_ahead(src, n) ==
    IF Len(src) >= n THEN DeOk(SubSeq(src, 1, n), SubSeq(src, n + 2, Len(src)))
    ELSE DeErr("IO", src)

\* Deserializer::read: self.r.read_exact(buf)?
d_read(src, n) ==
    IF Len(src) >= n THEN DeOk(SubSeq(src, 1, n), SubSeq(src, n + 1, Len(src)))
    ELSE DeErr("IO", src)

\* Deserializer::read_size: the size as a u64
read_size(sb, src) ==
    IF sb = "Var" THEN varint_read(src)
    ELSE LET n == CASE sb = "One" -> 1 [] sb = "Two" -> 2 [] sb = "Four" -> 4 [] sb = "Eight" -> 8
             r == d_read(src, n)
         IN  IF r.ok THEN ReadOk(U64FromLeBytes(r.val), r.rest) ELSE ReadErr(r.err, r.rest)

\* the number of bytes of the UTF-8 sequence that the byte b starts, 0 when
\* b starts none (a continuation byte, 0xC0, 0xC1, 0xF5..0xFF)
Utf8Width(b) ==
    IF b < 128 THEN 1
    ELSE IF b \in 194..223 THEN 2
    ELSE IF b \in 224..239 THEN 3
    ELSE IF b \in 240..244 THEN 4
    ELSE 0

\* the values the byte after the first byte b may have: no overlong form,
\* no surrogate, nothing above U+10FFFF
Utf8Second(b) ==
    IF b = 224 THEN 160..191
    ELSE IF b = 237 THEN 128..159
    ELSE IF b = 240 THEN 144..191
    ELSE IF b = 244 THEN 128..143
    ELSE 128..191

\* from_utf8, were the bytes not checked
Utf8Unchecked(bs) == TRUE

\* String::from_utf8 accepts the bytes: every byte starts a sequence that is
\* complete and well formed, or continues the sequence started before it
Utf8Valid(bs) ==
    LET n == Len(bs)
        starts(i) ==
            /\ Utf8Width(bs[i]) >= 1
            /\ i + Utf8Width(bs[i]) - 1 <= n
            /\ Utf8Width(bs[i]) >= 2 => bs[i + 1] \in Utf8Second(bs[i])
            /\ \A j \in (i + 2)..(i + Utf8Width(bs[i]) - 1) : bs[j] \in 128..191
        continues(i) ==
            /\ bs[i] \in 128..191
            /\ \E j \in 1..(i - 1) :
                  /\ i - j < Utf8Width(bs[j])
                  /\ \A k \in (j + 1)..(i - 1) : bs[k] \in 128..191
    IN  \A i \in 1..n : starts(i) \/ continues(i)

\* HashMap::insert, as collect() does it: a key already there keeps its place
map_insert(ps, key, v) ==
    IF \E i \in 1..Len(ps) : ps[i][1] = key
    THEN [i \in 1..Len(ps) |-> IF ps[i][1] = key THEN <<key, v>> ELSE ps[i]]
    ELSE Append(ps, <<key, v>>)

\* bool: match buf[0], were every byte but 0 taken as true
bool_match_nonzero(b) ==
    IF b = 0 THEN [ok |-> TRUE, val |-> FALSE] ELSE [ok |-> TRUE, val |-> TRUE]

\* bool: match buf[0] { 0 => Ok(false), 1 => Ok(true), _ => Err(InvalidData) }
bool_match(b) ==
    IF b = 0 THEN [ok |-> TRUE, val |-> FALSE]
    ELSE IF b = 1 THEN [ok |-> TRUE, val |-> TRUE]
    ELSE [ok |-> FALSE, val |-> FALSE]

\* Option: the match, were every discriminant but 0 taken as Some
option_match_nonzero(x) ==
    IF x = NumFromNat(0, 1) THEN "None" ELSE "Some"

\* Option: match d.deserialize()? { 0_u8 => None, 1_u8 => Some(..), _ => Err(InvalidData) }
option_match(x) ==
    IF x = NumFromNat(0, 1) THEN "None"
    ELSE IF x = NumFromNat(1, 1) THEN "Some"
    ELSE "InvalidData"

RECURSIVE Default(_)
\* std::default::Default::default()
Default(ty) ==
    CASE ty.k = "bool" -> FALSE
      [] ty.k = "num" -> NumFromNat(0, ty.w)
      [] ty.k = "array" -> [i \in 1..ty.n |-> Default(ty.t)]
      [] ty.k = "tuple" -> [i \in 1..Len(ty.ts) |-> Default(ty.ts[i])]
      [] ty.k = "struct" ->
            [j \in 1..Len(serialized_fields(ty.fields)) |->
                Default(ty.fields[serialized_fields(ty.fields)[j]].ty)]
      [] OTHER -> <<>>

RECURSIVE De(_, _, _, _)
RECURSIVE DeElems(_, _, _, _, _, _)
RECURSIVE DeTuple(_, _, _, _, _)
RECURSIVE DePairs(_, _, _, _, _, _, _)
RECURSIVE DeFields(_, _, _, _, _, _, _)
RECURSIVE deserialize_sized_elems(_, _, _, _, _)

\* Deserializer::deserialize_sized
deserialize_sized(src, sb, ty, rev, oc) ==
    LET r == read_size(sb, src)
    IN  IF ~r.ok THEN DeErr(r.err, r.rest)
        ELSE deserialize_sized_elems(ty, r.val, r.rest, rev, oc)

\* deser_sized!: Deserialize for String, Vec<T>, HashMap<K, V>
deser_sized(src, ty, rev, oc) == deserialize_sized(src, "Var", ty, rev, oc)

\* n elements one after the other (n = -1: more than any source holds)
DeElems(ty, n, src, rev, oc, acc) ==
    IF n = 0 THEN DeOk(acc, src)
    ELSE LET r == De(ty, src, rev, oc)
         IN  IF ~r.ok THEN DeErr(r.err, r.rest)
             ELSE DeElems(ty, IF n = -1 THEN n ELSE n - 1, r.rest, rev, oc, Append(acc, r.val))

\* Ok(($( <$t as Deserialize<R>>::deserialize(d)?, )*))
DeTuple(ts, src, rev, oc, acc) ==
    IF ts = <<>> THEN DeOk(acc, src)
    ELSE LET r == De(Head(ts), src, rev, oc)
         IN  IF ~r.ok THEN DeErr(r.err, r.rest)
             ELSE DeTuple(Tail(ts), r.rest, rev, oc, Append(acc, r.val))

\* (0..size).map(|_| Ok((d.deserialize()?, d.deserialize()?))).collect()
DePairs(kt, vt, n, src, rev, oc, acc) ==
    IF n = 0 THEN DeOk(acc, src)
    ELSE LET rk == De(kt, src, rev, oc)
         IN  IF ~rk.ok THEN DeErr(rk.err, rk.rest)
             ELSE LET rv == De(vt, rk.rest, rev, oc)
                  IN  IF ~rv.ok THEN DeErr(rv.err, rv.rest)
                      ELSE DePairs(kt, vt, IF n = -1 THEN n ELSE n - 1, rv.rest, rev, oc,
                                   map_insert(acc, rk.val, rv.val))

\* the generated deserialize, from field i on: acc holds the bindings made so
\* far and readf the fields read from the wire
DeFields(fields, i, src, rev, oc, acc, readf) ==
    IF i > Len(fields)
    THEN [ok |-> TRUE, val |-> acc, rest |-> src, err |-> "None", readf |-> readf]
    ELSE LET f == fields[i]
         IN  IF reads_field(f, rev, oc)
             THEN LET r == IF f.sb # "None"
                           THEN deserialize_sized(src, f.sb, f.ty, rev, oc)
                           ELSE De(f.ty, src, rev, oc)
                  IN  IF ~r.ok
                      THEN [ok |-> FALSE, val |-> <<>>, rest |-> r.rest, err |-> r.err,
                            readf |-> readf]
                      ELSE DeFields(fields, i + 1, r.rest, rev, oc,
                                    IF is_removed(f) THEN acc ELSE Append(acc, r.val),
                                    readf \cup {i})
             ELSE DeFields(fields, i + 1, src, rev, oc,
                           IF is_removed(f) THEN acc ELSE Append(acc, Default(f.ty)),
                           readf)

\* SizedDeserialize::deserialize_sized for String, Vec and HashMap.  For a
\* String, vec![0; size] comes first: it panics with "capacity overflow" when
\* size is above isize::MAX and aborts the process when the allocation fails,
\* as it does for 2^47 bytes and more, the whole address space of a process
deserialize_sized_elems(ty, size, src, rev, oc) ==
    CASE ty.k = "string" ->
            IF size[U64Bits] = 1 THEN DeErr("Panic", src)
            ELSE IF \E i \in 48..(U64Bits - 1) : size[i] = 1 THEN DeErr("Abort", src)
            ELSE IF U64ToNat(size) = -1 \/ U64ToNat(size) > Len(src) THEN DeErr("IO", src)
            ELSE LET r == d_read(src, U64ToNat(size))
                 IN  IF Utf8Valid(r.val) THEN r ELSE DeErr("InvalidUTF8", r.rest)
      [] ty.k = "vec" -> DeElems(ty.t, U64ToNat(size), src, rev, oc, <<>>)
      [] ty.k = "map" -> DePairs(ty.kt, ty.vt, U64ToNat(size), src, rev, oc, <<>>)

\* Deserialize::deserialize
De(ty, src, rev, oc) ==
    CASE ty.k = "bool" ->
            LET r == d_read(src, 1)
            IN  IF ~r.ok THEN r
                ELSE IF bool_match(r.val[1]).ok THEN DeOk(bool_match(r.val[1]).val, r.rest)
                ELSE DeErr("InvalidData", r.rest)
      [] ty.k = "num" ->
            LET r == d_read(src, ty.w)
            IN  IF ~r.ok THEN r ELSE DeOk(from_le_bytes(r.val), r.rest)
      [] ty.k = "option" ->
            LET r == De(TNum(1), src, rev, oc)
            IN  IF ~r.ok THEN r
                ELSE IF option_match(r.val) = "None" THEN DeOk(<<>>, r.rest)
                ELSE IF option_match(r.val) = "Some"
                THEN LET e == De(ty.t, r.rest, rev, oc)
                     IN  IF ~e.ok THEN e ELSE DeOk(<<e.val>>, e.rest)
                ELSE DeErr("InvalidData", r.rest)
      [] ty.k = "array" -> DeElems(ty.t, ty.n, src, rev, oc, <<>>)
      [] ty.k = "tuple" -> DeTuple(ty.ts, src, rev, oc, <<>>)
      [] ty.k \in {"string", "vec", "map"} -> deser_sized(src, ty, rev, oc)
      [] ty.k = "struct" -> DeFields(ty.fields, 1, src, rev, oc, <<>>, {})

-----------------------------------------------------------------------------
(* The stream scenario: a program declares a type, opens a Serializer on a *)
(* Vec with a revision, serializes one value and takes the bytes; a        *)
(* program opens a Deserializer on the bytes and deserializes one value of *)
(* the type as it declares it.                                             *)

MaxRev == 2

Revisions == 0..MaxRev

\* the modifiers a field is declared with
ModifierChains ==
    {<<>>}
    \cup {<<Added(a)>> : a \in Revisions}
    \cup {<<Removed(b)>> : b \in Revisions}
    \cup {<<Removed(b), Added(a)>> : a \in Revisions, b \in Revisions}
    \cup {<<Added(a), Removed(b)>> : a \in Revisions, b \in Revisions}
    \cup {<<Added(a), Added(b)>> : a \in Revisions, b \in Revisions}
    \cup {<<Removed(a), Removed(b)>> : a \in Revisions, b \in Revisions}

\* struct Example { a: f32, b: .. String, c: u32, d: .. u8 }
ExampleStruct(mb, md) ==
    TStruct(<< Field(<<>>, TNum(4), "None"), Field(mb, TString, "None"),
               Field(<<>>, TNum(4), "None"), Field(md, TNum(1), "None") >>)

\* struct Example { a: f32, b: String, c: u32 }, the revision 0 of the test
Example0 ==
    TStruct(<< Field(<<>>, TNum(4), "None"), Field(<<>>, TString, "None"),
               Field(<<>>, TNum(4), "None") >>)

\* struct Example { a: f32, b: Removed<1, String>, c: u32, d: Added<1, u8> },
\* the revision 1 of the test
Example1Rev == ExampleStruct(<<Removed(1)>>, <<Added(1)>>)

\* 5.4_f32, "" and "Hi!", 12345_u32, 78_u8
ExampleFieldValues ==
    << {NumFromNat(1085066445, 4)}, {<<>>, <<72, 105, 33>>},
       {NumFromNat(12345, 4)}, {NumFromNat(78, 1)} >>

RECURSIVE SeqProduct(_)
SeqProduct(sets) ==
    IF sets = <<>> THEN {<<>>}
    ELSE {<<h>> \o t : h \in Head(sets), t \in SeqProduct(Tail(sets))}

\* the values of the struct: one per field that is not removed
ExampleValues(ty) ==
    SeqProduct([j \in 1..Len(serialized_fields(ty.fields)) |->
                    ExampleFieldValues[serialized_fields(ty.fields)[j]]])

CodecStart ==
    /\ cpc = "declared"
    /\ hdr = [w |-> "new", r |-> "new", revision |-> 0]
    /\ overflow_checks \in BOOLEAN
    /\ wrev \in Revisions
    /\ sink = VecSink
    /\ dsrc = <<>> /\ drev = 0
    /\ dres = DeErr("None", <<>>)

StructInit ==
    /\ CodecStart
    /\ \E mb \in ModifierChains, md \in ModifierChains :
          /\ rty = ExampleStruct(mb, md)
          /\ wty \in {rty, Example0, Example1Rev}
    /\ wval \in ExampleValues(wty)

\* the values of the round-trip tests (reserialize_tests.rs, macros.rs)
U8(n) == NumFromNat(n, 1)
I32(n) == NumFromNat(n, 4)
AllOnes(w) == [i \in 1..(8 * w) |-> 1]
\* -3.0_f64, 5.0_f64 and f64::INFINITY as bit patterns
F64Samples ==
    { U64FromLeBytes(<<0, 0, 0, 0, 0, 0, 8, 192>>), U64FromLeBytes(<<0, 0, 0, 0, 0, 0, 20, 64>>),
      U64FromLeBytes(<<0, 0, 0, 0, 0, 0, 240, 127>>) }
StrHello == <<72, 101, 108, 108, 111>>
StrUmlaut == <<195, 164, 33>>
Vec3 == TStruct(<< Field(<<>>, TNum(4), "None"), Field(<<>>, TNum(4), "None"),
                   Field(<<>>, TNum(4), "None") >>)
Example1 == TStruct(<< Field(<<>>, Vec3, "None"), Field(<<>>, TString, "None"),
                       Field(<<>>, TBool, "None") >>)
MapStrArr == TMap(TString, TArray(TNum(4), 3))

TupleArities == 2..Len(tuples) + 1
\* a tuple of n u8 whose element i (from 0) is base + i
TupleU8(n) == TTuple([i \in 1..n |-> TNum(1)])
TupleU8Value(n, base) == [i \in 1..n |-> U8(base + i - 1)]

ValueCases ==
    {<<TBool, b>> : b \in BOOLEAN}
    \cup {<<TNum(1), U8(n)>> : n \in {0, 1, 127, 128, 255}}
    \cup {<<TNum(2), NumFromNat(n, 2)>> : n \in {0, 513, 65533, 65535}}
    \cup {<<TNum(4), I32(n)>> : n \in {0, 1, 305419896}} \cup {<<TNum(4), AllOnes(4)>>}
    \cup {<<TNum(8), x>> : x \in VarintTestValues \cup F64Samples}
    \cup {<<TNum(16), AllOnes(16)>>, <<TNum(16), NumFromNat(1, 16)>>}
    \cup {<<TOption(TOption(TNum(8))), <<<<x>>>> >> : x \in F64Samples}
    \cup {<<TOption(TOption(TNum(8))), << <<>> >> >>, <<TOption(TOption(TNum(8))), <<>> >>}
    \cup {<<TOption(TString), <<StrHello>> >>, <<TOption(TString), << <<>> >> >>,
          <<TOption(TString), <<>> >>}
    \cup {<<TArray(TNum(4), 3), <<I32(1), I32(2), I32(3)>> >>, <<TArray(TNum(4), 0), <<>> >>,
          <<TArray(TString, 2), << <<>>, StrHello >> >>}
    \cup {<<TupleU8(n), TupleU8Value(n, base)>> : n \in TupleArities, base \in {0, 100}}
    \cup {<<TTuple(<<TNum(1), TBool, TString>>), <<U8(7), TRUE, StrHello>> >>}
    \cup {<<TString, v>> : v \in {<<>>, StrHello, StrUmlaut}}
    \cup {<<TVec(TNum(1)), <<U8(1), U8(2), U8(3)>> >>, <<TVec(TNum(1)), <<>> >>,
          <<TVec(TString), <<StrHello, <<>>, StrUmlaut>> >>}
    \cup {<<MapStrArr, << <<StrHello, <<I32(1), I32(2), I32(3)>> >>,
                          <<StrUmlaut, <<I32(4), I32(5), AllOnes(4)>> >> >> >>,
          <<MapStrArr, << <<StrUmlaut, <<I32(4), I32(5), AllOnes(4)>> >>,
                          <<StrHello, <<I32(1), I32(2), I32(3)>> >> >> >>,
          <<MapStrArr, <<>> >>}
    \cup {<<Vec3, <<I32(1), AllOnes(4), I32(0)>> >>,
          <<Example1, << <<I32(1), I32(2), I32(3)>>, StrHello, TRUE >> >>,
          <<TStruct(<<>>), <<>> >>,
          <<TStruct(<<Field(<<>>, TNum(4), "None")>>), <<I32(305419896)>> >>}

\* reserialize_test(val): the program writes and reads the same type
ValueInit ==
    /\ CodecStart
    /\ \E c \in ValueCases : wty = c[1] /\ rty = c[1] /\ wval = c[2]

VarintIdle ==
    /\ vpc = "idle" /\ vx = U64Zero /\ vsink = <<>> /\ vtail = <<>>
    /\ vres = ReadErr("None", <<>>)

Init == VarintIdle /\ ArrayIdle /\ SizeIdle /\ (StructInit \/ ValueInit)

\* the types of the program compile
Compiles(ty) == ty.k = "struct" => codec_generated(ty.fields, overflow_checks)

\* #[serializable] and the compiler on the declarations
Derive ==
    /\ cpc = "declared"
    /\ cpc' = IF Compiles(wty) /\ Compiles(rty) THEN "start" ELSE "rejected"
    /\ UNCHANGED <<hdr, overflow_checks, wty, rty, wval, wrev, sink, dsrc, drev, dres, varintVars, arrayVars, sizeVars>>

\* Serializer::new(Vec::new(), revision)
SerializerNew ==
    /\ cpc = "start" /\ hdr.w = "new"
    /\ sink' = Ser(TNum(4), NumFromNat(wrev, 4), sink)
    /\ cpc' = "opened"
    /\ UNCHANGED <<hdr, overflow_checks, wty, rty, wval, wrev, dsrc, drev, dres, varintVars, arrayVars, sizeVars>>

\* value.serialize(&mut s)
SerializeValue ==
    /\ cpc = "opened"
    /\ sink' = Ser(wty, wval, sink)
    /\ cpc' = "serialized"
    /\ UNCHANGED <<hdr, overflow_checks, wty, rty, wval, wrev, dsrc, drev, dres, varintVars, arrayVars, sizeVars>>

\* s.finish(), and Deserializer::new on the bytes
DeserializerNew ==
    /\ cpc = "serialized" /\ hdr.r = "new"
    /\ sink.err = "None"
    /\ LET r == De(TNum(4), sink.out, 0, overflow_checks)
       IN  IF r.ok
           THEN cpc' = "reading" /\ drev' = NumToNatSat(r.val) /\ dsrc' = r.rest
           ELSE cpc' = "failed" /\ drev' = drev /\ dsrc' = r.rest
    /\ UNCHANGED <<hdr, overflow_checks, wty, rty, wval, wrev, sink, dres, varintVars, arrayVars, sizeVars>>

\* d.deserialize(), were a failed read to reset the revision
DeserializeValueResets ==
    /\ cpc = "reading"
    /\ dres' = De(rty, dsrc, drev, overflow_checks)
    /\ dsrc' = dres'.rest
    /\ drev' = IF dres'.ok THEN drev ELSE 0
    /\ cpc' = "decoded"
    /\ UNCHANGED <<hdr, overflow_checks, wty, rty, wval, wrev, sink, varintVars, arrayVars, sizeVars>>

\* d.deserialize(), then d.finish()
DeserializeValue ==
    /\ cpc = "reading"
    /\ dres' = De(rty, dsrc, drev, overflow_checks)
    /\ dsrc' = dres'.rest
    /\ cpc' = "decoded"
    /\ UNCHANGED <<hdr, overflow_checks, wty, rty, wval, wrev, sink, drev, varintVars, arrayVars, sizeVars>>

Next == Derive \/ SerializerNew \/ SerializeValue \/ DeserializerNew \/ DeserializeValue

Spec == Init /\ [][Next]_vars

-----------------------------------------------------------------------------
(* The revision-scoped field protocol and the round trip *)

\* the validity interval [a, b) of a field: Added<a> gives a, Removed<b> gives b
InInterval(f, r) ==
    \A i \in 1..Len(f.mods) :
        IF f.mods[i].m = "Added" THEN f.mods[i].rev <= r ELSE r < f.mods[i].rev

\* the declaration gives an interval with a < b: at most one Added and one
\* Removed, and some revision inside
HasInterval(f) ==
    /\ Cardinality({i \in 1..Len(f.mods) : f.mods[i].m = "Added"}) <= 1
    /\ Cardinality({i \in 1..Len(f.mods) : f.mods[i].m = "Removed"}) <= 1
    /\ \A i, j \in 1..Len(f.mods) :
          (f.mods[i].m = "Added" /\ f.mods[j].m = "Removed") => f.mods[i].rev < f.mods[j].rev
    /\ \A i \in 1..Len(f.mods) : f.mods[i].m = "Removed" => f.mods[i].rev > 0

\* the bytes of one value on a Vec
Encoding(ty, v) == Ser(ty, v, VecSink).out

\* the stream header: the revision as a little-endian u32
Header(r) == to_le_bytes(NumFromNat(r, 4), 4)

\* the position among the struct's own fields of field i, which is not removed
ValueIndex(fields, i) == Cardinality({j \in 1..i : ~is_removed(fields[j])})

\* the encodings, in declaration order, of the struct's fields whose interval
\* holds r (a removed field is no field of the struct and has no value)
RECURSIVE IntervalEncoding(_, _, _, _)
IntervalEncoding(fields, vals, r, i) ==
    IF i > Len(fields) THEN <<>>
    ELSE (IF ~is_removed(fields[i]) /\ InInterval(fields[i], r)
          THEN Encoding(fields[i].ty, vals[ValueIndex(fields, i)])
          ELSE <<>>) \o IntervalEncoding(fields, vals, r, i + 1)

\* a struct of the scenario is serialized
StructSerialized == cpc = "serialized" /\ wty.k = "struct" /\ <<wty, wval>> \notin ValueCases

\* C1: a struct serialized at revision r puts on the wire, after the header,
\* the bytes of exactly the fields whose interval [a, b) holds r; a field
\* outside its interval contributes no bytes.
SerializeWritesIntervalFields ==
    StructSerialized =>
        sink.out = Header(wrev) \o IntervalEncoding(wty.fields, wval, wrev, 1)

\* a struct of the scenario is decoded
StructDecoded == cpc = "decoded" /\ rty.k = "struct" /\ <<wty, wval>> \notin ValueCases

GapFillStruct == ExampleStruct(<<Removed(1)>>, <<Added(1)>>)

\* C3: with b: Removed<1> and d: Added<1> declared on both sides, the bytes
\* written at revision 0 decode with b read from the wire and d default, the
\* bytes written at revision 1 decode with b not read and d from the wire;
\* both decodes succeed and consume exactly the bytes written.
GapFillSameSchema ==
    (StructDecoded /\ wty = GapFillStruct /\ rty = GapFillStruct /\ wrev \in {0, 1}) =>
        /\ dres.ok /\ dres.rest = <<>>
        /\ wrev = 0 => (2 \in dres.readf /\ 4 \notin dres.readf
                        /\ dres.val[3] = Default(TNum(1)))
        /\ wrev = 1 => (2 \notin dres.readf /\ 4 \in dres.readf /\ dres.val[3] = wval[3])

\* C4: bytes written at revision 0 by {a, b, c} without modifiers, decoded by
\* {a, b: Removed<_, String>, c, d: Added<_, u8>} with both revisions above 0,
\* give a and c from the wire, skip b's bytes, give d its default 0 and leave
\* no byte unconsumed.
OldDataReadable ==
    (/\ StructDecoded /\ wty = Example0 /\ wrev = 0
     /\ \E b \in 1..MaxRev, a \in 1..MaxRev : rty = ExampleStruct(<<Removed(b)>>, <<Added(a)>>))
    => /\ dres.ok
       /\ dres.val = <<wval[1], wval[3], NumFromNat(0, 1)>>
       /\ dres.readf = {1, 2, 3}
       /\ dres.rest = <<>>

OldDataReadableWitness ==
    /\ StructDecoded /\ wty = Example0 /\ wrev = 0 /\ rty = GapFillStruct
    /\ wval[2] = <<72, 105, 33>>
    /\ dres.ok /\ dres.rest = <<>> /\ Len(dres.val) = 3

\* v == w for two values of a type: a HashMap is equal to one with the same
\* pairs, whatever the order it iterates in
RECURSIVE ValEq(_, _, _)
ValEq(ty, a, b) ==
    CASE ty.k = "option" -> Len(a) = Len(b) /\ (a # <<>> => ValEq(ty.t, a[1], b[1]))
      [] ty.k \in {"array", "vec"} ->
            Len(a) = Len(b) /\ \A i \in 1..Len(a) : ValEq(ty.t, a[i], b[i])
      [] ty.k = "tuple" ->
            Len(a) = Len(b) /\ \A i \in 1..Len(a) : ValEq(ty.ts[i], a[i], b[i])
      [] ty.k = "map" ->
            /\ Len(a) = Len(b)
            /\ \A i \in 1..Len(a) : \E j \in 1..Len(b) :
                  ValEq(ty.kt, a[i][1], b[j][1]) /\ ValEq(ty.vt, a[i][2], b[j][2])
      [] ty.k = "struct" ->
            /\ Len(a) = Len(b)
            /\ \A j \in 1..Len(a) :
                  ValEq(ty.fields[serialized_fields(ty.fields)[j]].ty, a[j], b[j])
      [] OTHER -> a = b

\* C5: serializing a value of a supported type and deserializing the same
\* type from the bytes returns an equal value and leaves no byte unconsumed.
RoundTrip ==
    (cpc = "decoded" /\ <<wty, wval>> \in ValueCases) =>
        (dres.ok /\ ValEq(wty, dres.val, wval) /\ dres.rest = <<>>)

\* the concatenation of the encodings of the elements, in order
RECURSIVE ElementEncodings(_, _, _)
ElementEncodings(ty, v, i) ==
    IF i > Len(v) THEN <<>>
    ELSE Encoding(IF ty.k = "tuple" THEN ty.ts[i] ELSE ty.t, v[i])
         \o ElementEncodings(ty, v, i + 1)

\* C6: the bytes of a fixed-size array or of a tuple are the encodings of
\* element 0, element 1, ..., the last element, each once and in order,
\* without a length prefix.
ElementsInOrder ==
    (cpc = "serialized" /\ wty.k \in {"array", "tuple"}) =>
        sink.out = Header(wrev) \o ElementEncodings(wty, wval, 1)

\* #[serializable] has run on the declarations of the scenario
Derived == cpc \notin {"idle", "declared"} /\ rty.k = "struct"

\* C13: a field declared Removed<b, Added<a, T>> with a >= b is rejected when
\* the derive macro processes it, and no codec is generated for its struct.
DeclarationEnforcesInterval ==
    Derived =>
        \A i \in 1..Len(rty.fields) :
            LET f == rty.fields[i]
            IN  (/\ Len(f.mods) = 2
                 /\ f.mods[1].m = "Removed" /\ f.mods[2].m = "Added"
                 /\ f.mods[2].rev >= f.mods[1].rev)
                => (macro_panics(f, overflow_checks) /\ cpc = "rejected")

\* C14: a field declared with Removed directly over Removed, or Added directly
\* over Added, makes the derive macro fail; no codec is generated.
DuplicateModifiersRejected ==
    Derived =>
        \A i \in 1..Len(rty.fields) :
            LET f == rty.fields[i]
            IN  (\E j \in 1..(Len(f.mods) - 1) : f.mods[j].m = f.mods[j + 1].m)
                => (macro_panics(f, overflow_checks) /\ cpc = "rejected")

DuplicateModifiersWitness ==
    /\ cpc = "rejected"
    /\ rty = ExampleStruct(<<Removed(2), Removed(1)>>, <<Added(1)>>)
    /\ macro_panics(rty.fields[2], overflow_checks)
    /\ ~macro_panics(rty.fields[4], overflow_checks)

-----------------------------------------------------------------------------
(* primitives.rs: <[T; N]>::deserialize step by step, with the           *)
(* InitializingArray that holds the elements decoded so far.  T is         *)
(* struct DropTest(bool), whose drop is counted.                           *)

DropTest == TStruct(<<Field(<<>>, TBool, "None")>>)

\* a slot of inner that was never written
Uninit == [init |-> FALSE, val |-> <<>>]
Initialized(v) == [init |-> TRUE, val |-> v]

\* T::drop called on what slot i of the array holds
Dropped(slot, i) == [slot |-> i, init |-> slot.init, val |-> slot.val]

\* what an uninitialized DropTest can hold when its drop runs
Garbage == {<<FALSE>>, <<TRUE>>}

MaxArrayLen == 4

ArrayBytes == {0, 1, 2}

ArrayInit ==
    /\ VarintIdle /\ CodecIdle /\ SizeIdle
    /\ apc = "start"
    /\ aN \in 0..MaxArrayLen
    /\ asrc \in UNION {[1..n -> ArrayBytes] : n \in 0..MaxArrayLen}
    /\ initialized_to = 0 /\ inner = <<>> /\ drops = <<>>
    /\ ares = DeErr("None", <<>>)

\* InitializingArray::new()
InitializingArrayNew ==
    /\ apc = "start"
    /\ inner' = [i \in 1..aN |-> Uninit]
    /\ initialized_to' = 0
    /\ apc' = "loop"
    /\ UNCHANGED <<aN, asrc, drops, ares, varintVars, codecVars, sizeVars>>

\* one turn of for _ in 0..N { init_arr.push(d.deserialize()?); }
\* push assigns to inner[initialized_to], which drops what the slot held: a
\* value that was never initialized.  On an error the function returns and
\* init_arr is dropped, which drops inner[..initialized_to].
ArrayDeserializeElement ==
    /\ apc = "loop" /\ initialized_to < aN
    /\ LET r == De(DropTest, asrc, 0, FALSE)
           idx == initialized_to + 1
       IN  /\ asrc' = r.rest
           /\ IF r.ok
              THEN /\ \E g \in Garbage :
                         drops' = Append(drops, Dropped([inner[idx] EXCEPT !.val = g], idx))
                   /\ inner' = [inner EXCEPT ![idx] = Initialized(r.val)]
                   /\ initialized_to' = initialized_to + 1
                   /\ UNCHANGED <<apc, ares>>
              ELSE /\ drops' = drops \o [j \in 1..initialized_to |-> Dropped(inner[j], j)]
                   /\ ares' = DeErr(r.err, r.rest)
                   /\ apc' = "failed"
                   /\ UNCHANGED <<inner, initialized_to>>
    /\ UNCHANGED <<aN, varintVars, codecVars, sizeVars>>

\* Ok(init_arr.get()): the array leaves the InitializingArray, nothing drops
InitializingArrayGet ==
    /\ apc = "loop" /\ initialized_to = aN
    /\ ares' = DeOk([i \in 1..aN |-> inner[i].val], asrc)
    /\ apc' = "returned"
    /\ UNCHANGED <<aN, asrc, initialized_to, inner, drops, varintVars, codecVars, sizeVars>>

\* the caller drops the array it got
DropArray ==
    /\ apc = "returned"
    /\ drops' = drops \o [j \in 1..aN |-> Dropped(inner[j], j)]
    /\ apc' = "dropped"
    /\ UNCHANGED <<aN, asrc, initialized_to, inner, ares, varintVars, codecVars, sizeVars>>

ArrayNext ==
    InitializingArrayNew \/ ArrayDeserializeElement \/ InitializingArrayGet \/ DropArray

SpecArray == ArrayInit /\ [][ArrayNext]_vars

\* C7: when element k of N fails, the k - 1 elements decoded before it are
\* each released exactly once, nothing that was never initialized is
\* released, and the element's error is what deserialize returns.
PartialArrayCleanup ==
    apc = "failed" =>
        /\ Len(drops) = initialized_to
        /\ \A j \in 1..Len(drops) : drops[j] = Dropped(inner[j], j) /\ drops[j].init
        /\ ~ares.ok /\ ares.err \in {"IO", "InvalidData"}

-----------------------------------------------------------------------------
(* The size scenario: a program writes a size, or a String with its size,  *)
(* under a SizeBytes policy on a Vec and reads it back under the policy.   *)

\* SizeBytes::maximum
maximum(sb) ==
    CASE sb = "One" -> U64FromLeBytes(<<255>>)
      [] sb = "Two" -> U64FromLeBytes(<<255, 255>>)
      [] sb = "Four" -> U64FromLeBytes(<<255, 255, 255, 255>>)
      [] sb \in {"Eight", "Var"} -> U64FromLeBytes(<<255, 255, 255, 255, 255, 255, 255, 255>>)

SizeBytesPolicies == {"One", "Two", "Four", "Eight", "Var"}

\* the sizes: 2^k - 1, 2^k, 2^k + 1 for every k and the values of the varint test
SizeInputs == VarintInputs

\* "a".repeat(n) for the lengths of primitive_serialization and its neighbours
MaxString == 256
StringLengths == {0, 1, 23, MaxString - 2, MaxString - 1, MaxString}
StringInputs == {Repeat(97, n) : n \in StringLengths}

\* the numbers of elements of the slices, Vecs and HashMaps
MaxElems == 16
SizedLengths == {0, 1, 2, 3, MaxElems - 1, MaxElems}

\* a String or &str, a Vec<u16> or &[u16], a HashMap<u8, bool> in the order
\* of its iteration
SizedInputs ==
    {<<TString, str>> : str \in StringInputs}
    \cup {<<TVec(TNum(2)), [k \in 1..n |-> NumFromNat(k, 2)]>> : n \in SizedLengths}
    \cup {<<TMap(TNum(1), TBool), [k \in 1..n |-> <<NumFromNat(k - 1, 1), k % 2 = 0>>]>> :
              n \in SizedLengths}

SizeInit ==
    /\ VarintIdle /\ CodecIdle /\ ArrayIdle
    /\ zsb \in SizeBytesPolicies
    /\ zsink = VecSink
    /\ zres = ReadErr("None", <<>>)
    /\ \/ zpc = "size" /\ zsize \in SizeInputs /\ zval = <<>> /\ zty = TString
       \/ /\ zpc = "sized"
          /\ \E c \in SizedInputs : zty = c[1] /\ zval = c[2]
          /\ zsize = U64FromNat(size_of(zval))

\* s.write_size(sb, size)
WriteSize ==
    /\ zpc = "size"
    /\ zsink' = write_size(zsink, zsb, zsize)
    /\ zpc' = "size_written"
    /\ UNCHANGED <<zsb, zsize, zty, zval, zres, varintVars, codecVars, arrayVars>>

\* d.read_size(sb) on the bytes written
ReadSize ==
    /\ zpc = "size_written" /\ zsink.err = "None"
    /\ zres' = read_size(zsb, zsink.out)
    /\ zpc' = "size_read"
    /\ UNCHANGED <<zsb, zsize, zty, zval, zsink, varintVars, codecVars, arrayVars>>

\* s.serialize_sized(sb, &val)
SerializeSized ==
    /\ zpc = "sized"
    /\ zsink' = serialize_sized(zsink, zsb, zty, zval)
    /\ zpc' = "sized_written"
    /\ UNCHANGED <<zsb, zsize, zty, zval, zres, varintVars, codecVars, arrayVars>>

\* d.deserialize_sized(sb) on the bytes written
DeserializeSized ==
    /\ zpc = "sized_written" /\ zsink.err = "None"
    /\ zres' = deserialize_sized(zsink.out, zsb, zty, 0, FALSE)
    /\ zpc' = "sized_read"
    /\ UNCHANGED <<zsb, zsize, zty, zval, zsink, varintVars, codecVars, arrayVars>>

\* s.serialize_sized(sb2, &val) on the Serializer that has written val
\* under the policy sb
SerializeSizedAgain ==
    /\ zpc = "sized_written" /\ zsink.err = "None"
    /\ \E sb2 \in SizeBytesPolicies : zsink' = serialize_sized(zsink, sb2, zty, zval)
    /\ zpc' = "sized_twice"
    /\ UNCHANGED <<zsb, zsize, zty, zval, zres, varintVars, codecVars, arrayVars>>

SizeNext ==
    WriteSize \/ ReadSize \/ SerializeSized \/ DeserializeSized \/ SerializeSizedAgain

SpecSize == SizeInit /\ [][SizeNext]_vars

\* the number of bytes of the length prefix of a fixed-width policy
PrefixWidth(sb) ==
    CASE sb = "One" -> 1 [] sb = "Two" -> 2 [] sb = "Four" -> 4 [] sb = "Eight" -> 8

\* a size was written, alone or in front of a String
SizeWritten == zpc \in {"size_written", "sized_written"}

SizePrefixRoundTrip ==
    /\ (zpc = "size_written" /\ ~U64Gt(zsize, maximum(zsb))) =>
          /\ zsink.err = "None"
          /\ IF zsb = "Var" THEN zsink.out = varint_write(zsize)
             ELSE Len(zsink.out) = PrefixWidth(zsb)
    /\ zpc = "size_read" => (zres.ok /\ zres.val = zsize /\ zres.rest = <<>>)

SizePrefixRoundTripWitness ==
    /\ zpc = "size_read" /\ zsb = "Four" /\ zsize = U64LowBits(32)
    /\ zsink.out = <<255, 255, 255, 255>> /\ zres.ok /\ zres.val = zsize

-----------------------------------------------------------------------------
(* The scenario of the stream constructors and of bytes that come from     *)
(* anywhere: a program opens a Serializer with or without the revision     *)
(* header, writes a value, and a Deserializer is opened on the bytes with  *)
(* or without reading a header; or a Deserializer made with                *)
(* new_no_revision(bytes, 0) decodes a value from bytes it was given.      *)

HeaderRevisions == {0, 1, 258, 305419896}

Constructors == {"new", "new_no_revision"}

\* the widths in bytes of u8/i8 .. u128/i128
NumWidths == {1, 2, 4, 8, 16}

\* -1 of a signed type, MAX of an unsigned one
NumAllOnes(w) == [i \in 1..(8 * w) |-> 1]

\* MIN of a signed type
NumMin(w) == [i \in 1..(8 * w) |-> IF i = 8 * w THEN 1 ELSE 0]

StreamValues ==
    { <<TBool, FALSE>>, <<TBool, TRUE>>,
      <<TOption(TBool), <<>> >>, <<TOption(TBool), <<TRUE>> >>,
      <<TOption(TNum(2)), <<NumFromNat(513, 2)>> >>,
      <<TOption(TOption(TNum(1))), << <<>> >> >>,
      <<TOption(TString), <<StrHello>> >>,
      <<TNum(1), U8(7)>>, <<TNum(4), I32(305419896)>> }
    \cup {<<TNum(w), NumFromNat(n, w)>> :
              w \in NumWidths, n \in {0, 1, 128, 255, 513, 32768, 305419896}}
    \cup {<<TNum(w), NumAllOnes(w)>> : w \in NumWidths}
    \cup {<<TString, Repeat(97, n)>> : n \in {0, 15, 127, 128, 200}}
    \cup {<<TVec(TNum(2)), [k \in 1..n |-> NumFromNat(k, 2)]>> : n \in {0, 3}}
    \cup {<<TVec(TString), <<StrHello, <<>>, <<72, 105>> >> >>,
          <<TMap(TNum(1), TBool), << <<U8(7), TRUE>>, <<U8(2), FALSE>> >> >>}
    \cup {<<TNum(w), NumMin(w)>> : w \in NumWidths}

\* String bodies that are UTF-8: "", "Hi", a-umlaut, the euro sign, an emoji,
\* U+D7FF, U+0800, U+10000, U+10FFFF
ValidUtf8 ==
    { <<>>, <<72, 105>>, <<195, 164>>, <<226, 130, 172>>, <<240, 159, 146, 150>>,
      <<97, 195, 164, 33>>, <<237, 159, 191>>, <<224, 160, 128>>,
      <<240, 144, 128, 128>>, <<244, 143, 191, 191>> }

\* String bodies that are not: a lone continuation byte, truncated sequences,
\* overlong forms, a surrogate, a code point above U+10FFFF, 0xF5 and 0xFF
InvalidUtf8 ==
    { <<128>>, <<195>>, <<195, 40>>, <<226, 130>>, <<195, 164, 164>>, <<97, 128>>,
      <<192, 128>>, <<193, 191>>, <<224, 128, 128>>, <<240, 128, 128, 128>>,
      <<237, 160, 128>>, <<244, 144, 128, 128>>, <<245, 128, 128, 128>>,
      <<255>>, <<97, 255>> }

\* struct Sized(SizeBytes<N, String>)
SizedString(sb) == TStruct(<<Field(<<>>, TString, sb)>>)

\* the length prefix of n under a policy
SizePrefix(sb, n) == write_size(VecSink, sb, n).out

StreamTails == {<<>>, <<0>>}

\* a length prefix in front of a String, and bytes that follow
StringSources(sb) ==
    {SizePrefix(sb, U64FromNat(Len(b))) \o b \o t : b \in ValidUtf8 \cup InvalidUtf8,
                                                 t \in StreamTails}

\* lengths far above what follows them: 2^63 - 1, 2^63, u64::MAX, 2^47, 2^32, 300
HugeSizes ==
    {U64LowBits(63), U64OneBit(63), U64LowBits(64), U64OneBit(47), U64OneBit(32),
     U64FromNat(300)}

\* sources of integers: the bytes of the leftover_bytes test, short and
\* long runs of bytes
IntegerSources ==
    {<<>>, <<1>>, <<1, 2, 3, 4>>, <<255, 255>>, <<0, 128, 7>>,
     [k \in 1..17 |-> k], [k \in 1..16 |-> 255], [k \in 1..8 |-> 256 - k]}

DecodeCases ==
    {<<TBool, <<b>> \o t>> : b \in 0..255, t \in StreamTails}
    \cup {<<TOption(ty), <<b>> \o t>> :
              ty \in {TBool, TNum(2)}, b \in 0..255, t \in {<<>>, <<1>>, <<7>>, <<1, 2, 3>>}}
    \cup {<<ty, <<>> >> : ty \in {TBool, TOption(TBool), TNum(4), TString, TVec(TNum(1))}}
    \cup {<<TString, src>> : src \in StringSources("Var")}
    \cup UNION {{<<SizedString(sb), src>> : src \in StringSources(sb)} :
                   sb \in {"One", "Two", "Four", "Eight"}}
    \cup {<<ty, SizePrefix("Var", n) \o t>> :
              ty \in {TString, TVec(TNum(1)), TVec(TString), MapStrArr, TOption(TString)},
              n \in HugeSizes, t \in {<<>>, <<1, 72, 105>>}}
    \cup {<<SizedString("Eight"), SizePrefix("Eight", n) \o t>> :
              n \in HugeSizes, t \in {<<>>, <<72, 105>>}}
    \cup {<<ty, src>> : ty \in {TNum(4), TArray(TBool, 2), TTuple(<<TBool, TNum(2)>>), Vec3},
                         src \in {<<1>>, <<1, 0>>, <<1, 2, 3>>, <<1, 0, 0, 0, 5>>}}
    \cup {<<ty, src>> : ty \in {TString, TVec(TNum(1))}, src \in CraftedSources}
    \cup {<<TNum(w), src>> : w \in NumWidths, src \in IntegerSources}

\* a program that writes and reads back
ProgramInit ==
    /\ cpc = "start"
    /\ overflow_checks = TRUE
    /\ hdr \in [w : Constructors, r : Constructors, revision : {0, 2}]
    /\ wrev \in HeaderRevisions
    /\ \E c \in StreamValues : wty = c[1] /\ rty = c[1] /\ wval = c[2]
    /\ sink = VecSink
    /\ dsrc = <<>> /\ drev = 0
    /\ dres = DeErr("None", <<>>)

\* Deserializer::new_no_revision(bytes, 0) on bytes that come from anywhere
ReceivedInit ==
    /\ cpc = "reading"
    /\ overflow_checks = TRUE
    /\ hdr = [w |-> "none", r |-> "new_no_revision", revision |-> 0]
    /\ wrev = 0 /\ wty = [k |-> "none"] /\ wval = <<>>
    /\ \E c \in DecodeCases :
          rty = c[1] /\ sink = [VecSink EXCEPT !.out = c[2]] /\ dsrc = c[2]
    /\ drev = 0
    /\ dres = DeErr("None", <<>>)

StreamInit == VarintIdle /\ ArrayIdle /\ SizeIdle /\ (ProgramInit \/ ReceivedInit)

\* Serializer::new_no_revision(Vec::new())
SerializerNewNoRevision ==
    /\ cpc = "start" /\ hdr.w = "new_no_revision"
    /\ cpc' = "opened"
    /\ UNCHANGED <<hdr, overflow_checks, wty, rty, wval, wrev, sink, dsrc, drev, dres,
                   varintVars, arrayVars, sizeVars>>

\* s.finish(), and Deserializer::new_no_revision(bytes, revision)
DeserializerNewNoRevision ==
    /\ cpc = "serialized" /\ hdr.r = "new_no_revision"
    /\ sink.err = "None"
    /\ drev' = hdr.revision
    /\ dsrc' = sink.out
    /\ cpc' = "reading"
    /\ UNCHANGED <<hdr, overflow_checks, wty, rty, wval, wrev, sink, dres,
                   varintVars, arrayVars, sizeVars>>

StreamNext ==
    \/ SerializerNew \/ SerializerNewNoRevision \/ SerializeValue
    \/ DeserializerNew \/ DeserializerNewNoRevision \/ DeserializeValue

SpecStream == StreamInit /\ [][StreamNext]_vars

\* a Deserializer was given bytes that come from anywhere and has decoded
Received == cpc = "decoded" /\ hdr.w = "none"

\* the errors of BinverseError that a read can return
DecodeErrors == {"IO", "VarIntOverflow", "InvalidUTF8", "InvalidData"}

\* C15: for every input and every target type, deserialize returns a value
\* or one of the errors IO, VarIntOverflow, InvalidUTF8, InvalidData; it does
\* not panic or abort, whatever size a length prefix of the input declares.
NoPanicOnMalformedInput ==
    Received => (dres.ok \/ dres.err \in DecodeErrors)

\* C16: two equal values of a type serialized at the same revision under the
\* same policy give the same bytes; two HashMaps with the same pairs included.
SerializeDeterministic ==
    (cpc = "serialized" /\ <<wty, wval>> \in ValueCases) =>
        \A c \in ValueCases :
            (c[1] = wty /\ ValEq(wty, c[2], wval)) =>
                sink.out = Header(wrev) \o Encoding(wty, c[2])

\* the type of a String read under a policy, and its value
StringType(sb) == IF sb = "Var" THEN TString ELSE SizedString(sb)
StringValue(sb, body) == IF sb = "Var" THEN body ELSE <<body>>

\* C17: a String read under a policy from a length n and n bytes is
\* InvalidUTF8 when the n bytes are not UTF-8, and otherwise the String of
\* exactly those bytes; in both cases exactly the n bytes are consumed.
StringUtf8Rejection ==
    Received =>
        \A sb \in SizeBytesPolicies, body \in ValidUtf8 \cup InvalidUtf8, t \in StreamTails :
            (/\ rty = StringType(sb)
             /\ sink.out = SizePrefix(sb, U64FromNat(Len(body))) \o body \o t)
            => /\ dres.rest = t
               /\ IF body \in ValidUtf8
                  THEN dres.ok /\ dres.val = StringValue(sb, body)
                  ELSE ~dres.ok /\ dres.err = "InvalidUTF8"

StringUtf8RejectionWitness ==
    /\ Received /\ rty = TString /\ sink.out = <<3, 237, 160, 128, 0>>
    /\ ~dres.ok /\ dres.err = "InvalidUTF8" /\ dres.rest = <<0>>

\* the revision r in four bytes, least significant first
RevisionBytes(r) ==
    <<r % 256, (r \div 256) % 256, (r \div 65536) % 256, (r \div 16777216) % 256>>

\* what the constructor of the Serializer has put on the stream
WrittenHeader == IF hdr.w = "new" THEN RevisionBytes(wrev) ELSE <<>>

\* C18: a bool is written as one byte, 0 for false and 1 for true; reading
\* takes one byte and gives false for 0, true for 1 and InvalidData for each
\* of the other 254 values.
BoolCodec ==
    /\ (cpc = "serialized" /\ wty = TBool) =>
          sink.out = WrittenHeader \o <<IF wval THEN 1 ELSE 0>>
    /\ (Received /\ rty = TBool /\ sink.out # <<>>) =>
          /\ dres.rest = Tail(sink.out)
          /\ sink.out[1] = 0 => (dres.ok /\ dres.val = FALSE)
          /\ sink.out[1] = 1 => (dres.ok /\ dres.val = TRUE)
          /\ sink.out[1] \in 2..255 => (~dres.ok /\ dres.err = "InvalidData")

BoolCodecWitness ==
    /\ Received /\ rty = TBool /\ sink.out = <<255>>
    /\ ~dres.ok /\ dres.err = "InvalidData" /\ dres.rest = <<>>

\* C19: None is written as the byte 0 alone, Some(x) as 1 and x's encoding;
\* reading gives None on 0 and reads no further, decodes the payload on 1,
\* and gives InvalidData on every other discriminant without reading a payload.
OptionCodec ==
    /\ (cpc = "serialized" /\ wty.k = "option") =>
          sink.out = WrittenHeader \o (IF wval = <<>> THEN <<0>>
                                       ELSE <<1>> \o Encoding(wty.t, wval[1]))
    /\ (Received /\ rty.k = "option" /\ sink.out # <<>>) =>
          LET payload == Tail(sink.out)
              e == De(rty.t, payload, 0, TRUE)
          IN  CASE sink.out[1] = 0 -> dres.ok /\ dres.val = <<>> /\ dres.rest = payload
                [] sink.out[1] = 1 ->
                      IF e.ok THEN dres.ok /\ dres.val = <<e.val>> /\ dres.rest = e.rest
                      ELSE ~dres.ok /\ dres.err = e.err
                [] OTHER -> ~dres.ok /\ dres.err = "InvalidData" /\ dres.rest = payload

OptionCodecWitness ==
    /\ Received /\ rty = TOption(TNum(2)) /\ sink.out = <<2, 1, 2, 3>>
    /\ ~dres.ok /\ dres.err = "InvalidData" /\ dres.rest = <<1, 2, 3>>

\* C20: Serializer::new(w, r) writes r as the first 4 bytes, little-endian,
\* before any value, and new_no_revision writes nothing; Deserializer::new
\* reads those 4 bytes and has revision() = r; new_no_revision(src, r) reads
\* nothing and has revision() = r.
StreamHeader ==
    hdr.w \in Constructors =>
        /\ cpc = "opened" => sink.out = WrittenHeader
        /\ cpc = "serialized" => sink.out = WrittenHeader \o Encoding(wty, wval)
        /\ cpc = "reading" =>
              IF hdr.r = "new"
              THEN /\ dsrc = SubSeq(sink.out, 5, Len(sink.out))
                   /\ hdr.w = "new" => drev = wrev
              ELSE drev = hdr.revision /\ dsrc = sink.out

StreamHeaderWitness ==
    /\ cpc = "reading" /\ hdr.w = "new" /\ hdr.r = "new" /\ wrev = 305419896
    /\ SubSeq(sink.out, 1, 4) = <<120, 86, 52, 18>>
    /\ drev = 305419896 /\ dsrc = Encoding(wty, wval)

\* bit i (1 = least significant) of the number whose byte k has weight
\* 256^(k-1)
LittleEndianBit(bytes, i) == (bytes[((i - 1) \div 8) + 1] \div Pow2((i - 1) % 8)) % 2

\* C21: an integer of 8 to 128 bits, signed or unsigned, is written as
\* exactly width/8 bytes, least significant byte first, and is read back
\* from exactly that many bytes the same way: an i16 read from [1, 2, 3, 4] is
\* 1 | 2 << 8 and leaves [3, 4].
IntegerWireFormat ==
    /\ (cpc = "serialized" /\ wty.k = "num") =>
          LET h == Len(WrittenHeader)
          IN  /\ Len(sink.out) = h + wty.w
              /\ SubSeq(sink.out, 1, h) = WrittenHeader
              /\ \A i \in 1..(8 * wty.w) :
                    LittleEndianBit(SubSeq(sink.out, h + 1, h + wty.w), i) = wval[i]
    /\ (Received /\ rty.k = "num") =>
          IF Len(sink.out) >= rty.w
          THEN /\ dres.ok
               /\ DOMAIN dres.val = 1..(8 * rty.w)
               /\ \A i \in 1..(8 * rty.w) : dres.val[i] = LittleEndianBit(sink.out, i)
               /\ dres.rest = SubSeq(sink.out, rty.w + 1, Len(sink.out))
          ELSE ~dres.ok /\ dres.err = "IO"
    /\ (cpc = "decoded" /\ hdr.w \in Constructors /\ hdr.w = hdr.r /\ wty.k = "num") =>
          dres.ok /\ dres.val = wval /\ dres.rest = <<>>

IntegerWireFormatWitness ==
    /\ Received /\ rty = TNum(2) /\ sink.out = <<1, 2, 3, 4>>
    /\ dres.ok /\ dres.val = NumFromNat(513, 2) /\ dres.rest = <<3, 4>>

-----------------------------------------------------------------------------
(* Sized containers *)

\* the length prefix at the head of bytes, read as the policy lays it out
PrefixValue(sb, bytes) ==
    IF sb = "Var" THEN varint_read(bytes).val
    ELSE U64FromLeBytes(SubSeq(bytes, 1, PrefixWidth(sb)))

\* the bytes after the length prefix
AfterPrefix(sb, bytes) ==
    IF sb = "Var" THEN varint_read(bytes).rest
    ELSE SubSeq(bytes, PrefixWidth(sb) + 1, Len(bytes))

\* the bytes one element takes: a byte of a string, a u16 of the slices and
\* Vecs, a u8 key with its bool of the HashMaps
ElementWidth(ty) ==
    CASE ty.k = "string" -> 1 [] ty.k = "vec" -> 2 [] ty.k = "map" -> 2

\* the elements of v one after the other: the bytes of a string, the two
\* bytes of each u16, low byte first, the key and the bool of each entry
ElementBytes(ty, v) ==
    CASE ty.k = "string" -> v
      [] ty.k = "vec" ->
            [i \in 1..(2 * Len(v)) |-> ByteOfBits(v[(i + 1) \div 2], 2 - (i % 2))]
      [] ty.k = "map" ->
            [i \in 1..(2 * Len(v)) |->
                IF i % 2 = 1 THEN ByteOfBits(v[(i + 1) \div 2][1], 1)
                ELSE IF v[i \div 2][2] THEN 1 ELSE 0]

\* C22: for a String or &str, a slice or Vec, a HashMap, and every policy
\* that accepts the length, serialize_sized writes a length prefix equal to
\* the number of elements it writes after it, which are all the elements.
LengthPayloadAgreement ==
    (zpc \in {"sized_written", "sized_read"} /\ zsink.err = "None") =>
        LET n == U64ToNat(PrefixValue(zsb, zsink.out))
            payload == AfterPrefix(zsb, zsink.out)
        IN  /\ n = Len(zval)
            /\ Len(payload) = n * ElementWidth(zty)
            /\ payload = ElementBytes(zty, zval)

LengthPayloadAgreementWitness ==
    /\ zpc = "sized_written" /\ zsink.err = "None"
    /\ zty = TVec(TNum(2)) /\ zsb = "Two" /\ Len(zval) = 3
    /\ zsink.out = <<3, 0, 1, 0, 2, 0, 3, 0>>

\* the types with a length prefix
SizedKinds == {"string", "vec", "map"}

\* the bytes the Deserializer held when deserialize was called
DecodedFrom == IF hdr.r = "new" THEN SubSeq(sink.out, 5, Len(sink.out)) ELSE sink.out

\* C23: for a String, &str, slice, Vec or HashMap, v.serialize(s) writes
\* the bytes of s.serialize_sized(SizeBytes::Var, &v), and the plain
\* deserialize returns on every source what deserialize_sized(SizeBytes::Var)
\* returns: a string of 15 bytes takes the one byte of the varint 15 and
\* its 15 bytes.
PlainIsSizedVar ==
    /\ (cpc = "serialized" /\ wty.k \in SizedKinds) =>
          /\ sink.err = "None"
          /\ sink.out = WrittenHeader \o serialize_sized(VecSink, "Var", wty, wval).out
          /\ (wty.k = "string" /\ Len(wval) < 128) =>
                sink.out = WrittenHeader \o <<Len(wval)>> \o wval
    /\ (cpc = "decoded" /\ rty.k \in SizedKinds) =>
          dres = deserialize_sized(DecodedFrom, "Var", rty, drev, overflow_checks)

PlainIsSizedVarWitness ==
    /\ cpc = "serialized" /\ hdr.w = "new_no_revision"
    /\ wty = TString /\ Len(wval) = 15 /\ Len(sink.out) = 16
    /\ sink.out = <<15>> \o wval

\* the number of bytes deserialize has taken from the source
ConsumedLen == Len(DecodedFrom) - Len(dres.rest)

\* the bytes deserialize has taken from the source
Consumed == SubSeq(DecodedFrom, 1, ConsumedLen)

\* the place of the first byte of bytes that has the high bit clear
FirstLowByte(bytes) ==
    CHOOSE i \in 1..Len(bytes) : bytes[i] < 128 /\ \A j \in 1..(i - 1) : bytes[j] >= 128

\* C24: a decode that succeeds takes exactly the bytes of the value from
\* the front of the source: finish() gives the source from the byte after
\* them on, the bytes taken alone give the same value, one byte fewer gives
\* none, and a varint ends at its first byte with the high bit clear.
ExactConsumption ==
    (cpc = "decoded" /\ dres.ok) =>
        /\ ConsumedLen >= 0
        /\ dres.rest = SubSeq(DecodedFrom, ConsumedLen + 1, Len(DecodedFrom))
        /\ dsrc = dres.rest
        /\ De(rty, Consumed, drev, overflow_checks) = [dres EXCEPT !.rest = <<>>]
        /\ ConsumedLen > 0 =>
              ~De(rty, SubSeq(Consumed, 1, ConsumedLen - 1), drev, overflow_checks).ok
        /\ (hdr.w \in Constructors /\ hdr.w = hdr.r) =>
              Consumed = Encoding(wty, wval) /\ dres.rest = <<>>
        /\ (rty = TString \/ rty = TVec(TNum(1))) =>
              ConsumedLen = FirstLowByte(DecodedFrom) + Len(dres.val)

ExactConsumptionWitness ==
    /\ Received /\ rty = TOption(TNum(2)) /\ sink.out = <<1, 1, 2, 3>>
    /\ dres.ok /\ dres.val = <<NumFromNat(513, 2)>> /\ dsrc = <<3>>

\* the revision the Deserializer was constructed with: the u32 at the head of
\* the stream for new, the argument for new_no_revision
ConstructedRevision ==
    IF hdr.r = "new" THEN NumToNatSat(from_le_bytes(SubSeq(sink.out, 1, 4)))
    ELSE hdr.revision

\* C25: from its construction on, before and after a deserialize that
\* succeeds or fails, revision() is the value the Deserializer was
\* constructed with.
RevisionImmutable ==
    cpc \in {"reading", "decoded"} =>
        /\ drev = ConstructedRevision
        /\ (hdr.w = "new" /\ hdr.r = "new") => drev = wrev

RevisionImmutableWitness ==
    /\ cpc = "decoded" /\ ~dres.ok /\ dres.err = "InvalidData"
    /\ hdr.r = "new_no_revision" /\ hdr.revision = 2 /\ drev = 2

-----------------------------------------------------------------------------
(* The scenario of failing streams: a program writes a value to a writer   *)
(* that returns an error at one of its writes or to a slice too short for  *)
(* the value, or reads a value from a source that ends early.              *)

MaxCalls == 6
MaxCap == 12

\* values, each with the sizes of the buffers its serialize passes to
\* Serializer::write and to varint::write, in order, which are the sizes of
\* the buffers its deserialize reads
IoCases ==
    { <<TBool, TRUE, <<1>> >>,
      <<TNum(4), I32(305419896), <<4>> >>,
      <<TOption(TNum(4)), <<I32(7)>>, <<1, 4>> >>,
      <<TTuple(<<TNum(2), TNum(1), TNum(4)>>), <<NumFromNat(513, 2), U8(7), I32(9)>>,
        <<2, 1, 4>> >>,
      <<TArray(TNum(2), 3), <<NumFromNat(1, 2), NumFromNat(2, 2), NumFromNat(3, 2)>>,
        <<2, 2, 2>> >>,
      <<Vec3, <<I32(1), I32(2), I32(3)>>, <<4, 4, 4>> >>,
      <<TString, StrHello, <<1, 5>> >>,
      <<TString, Repeat(97, 200), <<1, 1, 200>> >>,
      <<TVec(TNum(2)), <<NumFromNat(258, 2), NumFromNat(3, 2)>>, <<1, 2, 2>> >>,
      <<TMap(TNum(1), TBool), << <<U8(7), TRUE>>, <<U8(2), FALSE>> >>, <<1, 1, 1, 1, 1>> >> }

\* the writers: a Vec, writers that fail at their k-th write, slices of n bytes
IoSinks ==
    {FailingSink(k) : k \in 0..MaxCalls} \cup {SliceSink(n) : n \in 0..MaxCap}

\* a program that writes to one of the writers and reads back what it wrote
IoProgramInit ==
    /\ cpc = "start"
    /\ overflow_checks = TRUE
    /\ hdr \in [w : Constructors, r : Constructors, revision : {0}]
    /\ wrev \in {0, 258}
    /\ \E c \in IoCases : wty = c[1] /\ rty = c[1] /\ wval = c[2]
    /\ sink \in IoSinks
    /\ dsrc = <<>> /\ drev = 0
    /\ dres = DeErr("None", <<>>)

\* a Deserializer on the first n bytes of a value's bytes
IoReceivedInit ==
    /\ cpc = "reading"
    /\ overflow_checks = TRUE
    /\ hdr = [w |-> "none", r |-> "new_no_revision", revision |-> 0]
    /\ wrev = 0
    /\ \E c \in IoCases :
          /\ wty = c[1] /\ rty = c[1] /\ wval = c[2]
          /\ \E n \in 0..Len(Ser(c[1], c[2], VecSink).out) :
                /\ dsrc = SubSeq(Ser(c[1], c[2], VecSink).out, 1, n)
                /\ sink = [VecSink EXCEPT !.out = dsrc]
    /\ drev = 0
    /\ dres = DeErr("None", <<>>)

IoInit == VarintIdle /\ ArrayIdle /\ SizeIdle /\ (IoProgramInit \/ IoReceivedInit)

SpecIo == IoInit /\ [][StreamNext]_vars

\* the sizes of the buffers of the value written or read
IoBuffers == (CHOOSE c \in IoCases : c[1] = rty /\ c[2] = wval)[3]

\* the sizes of the buffers the program writes, the revision header first
WrittenBuffers == (IF hdr.w = "new" THEN <<4>> ELSE <<>>) \o IoBuffers

\* the sum of the first k of the sizes ws
RECURSIVE SumTo(_, _)
SumTo(ws, k) == IF k = 0 THEN 0 ELSE SumTo(ws, k - 1) + ws[k]

\* the number of whole buffers, from the first on, that fit in n bytes
WholeBuffers(ws, n) ==
    CHOOSE k \in 0..Len(ws) :
        SumTo(ws, k) <= n /\ (k < Len(ws) => SumTo(ws, k + 1) > n)

\* C26: when a write of the writer returns an error, the serialize has
\* written the buffers before it and makes no other write call, neither of
\* the same buffer nor of a later one, and its result is BinverseError::IO;
\* when the source ends before a buffer is filled, the deserialize has read
\* the buffers before it and nothing after, and its result is IO.
IoFailurePropagates ==
    /\ (cpc = "serialized" /\ hdr.w \in Constructors /\ wty = rty) =>
          LET ws == WrittenBuffers
              bytes == WrittenHeader \o Encoding(wty, wval)
              failing == IF sink.bounded
                         THEN IF sink.cap < Len(bytes)
                              THEN WholeBuffers(ws, sink.cap) + 1 ELSE 0
                         ELSE IF sink.failAt <= Len(ws) THEN sink.failAt ELSE 0
          IN  IF failing = 0
              THEN sink.err = "None" /\ sink.out = bytes /\ sink.calls = Len(ws)
              ELSE /\ sink.err = "IO"
                   /\ sink.calls = failing
                   /\ sink.out = SubSeq(bytes, 1, IF sink.bounded THEN sink.cap
                                                  ELSE SumTo(ws, failing - 1))
    /\ (cpc = "decoded" /\ hdr.w = "none" /\ wty = rty) =>
          LET n == Len(sink.out)
          IN  IF n < Len(Encoding(wty, wval))
              THEN /\ ~dres.ok /\ dres.err = "IO"
                   /\ dres.rest = SubSeq(sink.out, SumTo(IoBuffers, WholeBuffers(IoBuffers, n)) + 1, n)
              ELSE dres.ok /\ ValEq(rty, dres.val, wval) /\ dres.rest = <<>>

IoFailurePropagatesWitness ==
    /\ cpc = "serialized" /\ hdr.w = "new_no_revision"
    /\ wty = TTuple(<<TNum(2), TNum(1), TNum(4)>>)
    /\ sink.failAt = 2 /\ sink.err = "IO" /\ sink.calls = 2 /\ sink.out = <<1, 2>>

-----------------------------------------------------------------------------
(* Re-added fields *)

\* field f is declared Added<a, Removed<b, T>> with b < a
ReAdded(f) ==
    /\ Len(f.mods) = 2
    /\ f.mods[1].m = "Added" /\ f.mods[2].m = "Removed"
    /\ f.mods[2].rev < f.mods[1].rev

\* struct Example { a: f32, b: Added<2, Removed<1, String>>, c: u32,
\* d: Removed<2, Added<1, u8>> }, the revision 2 of the test
Example2Rev == ExampleStruct(<<Added(2), Removed(1)>>, <<Removed(2), Added(1)>>)

\* C27: a field declared Added<a, Removed<b, T>> with b < a is read from
\* the wire when the stored revision is below b or at least a, and has its
\* default value when b <= revision < a; b: Added<2, Removed<1, String>> is
\* read from the data of revision 0 and is "" for the data of revision 1, and
\* both decodes consume all bytes.
ReAddedFieldRead ==
    StructDecoded =>
        /\ \A i \in 1..Len(rty.fields) :
              LET f == rty.fields[i]
                  present == drev < f.mods[2].rev \/ drev >= f.mods[1].rev
              IN  ReAdded(f) =>
                     /\ i \in dres.readf => present
                     /\ dres.ok =>
                           /\ present => i \in dres.readf
                           /\ i \notin dres.readf =>
                                 dres.val[ValueIndex(rty.fields, i)] = Default(f.ty)
        /\ (rty = Example2Rev /\ wty = Example0 /\ wrev = 0) =>
              dres.ok /\ dres.rest = <<>> /\ dres.val = wval
        /\ (rty = Example2Rev /\ wty = Example1Rev /\ wrev = 1) =>
              dres.ok /\ dres.rest = <<>> /\ dres.val = <<wval[1], <<>>, wval[2]>>

-----------------------------------------------------------------------------
(* Arrays that decode *)

\* C28: when the N elements of a fixed array all decode, nothing has been
\* released when deserialize returns the array (storing an element in its
\* slot releases no previous occupant), and when the caller drops the array
\* its N elements are released once each and nothing else is.
ArrayReleasedByCaller ==
    /\ apc = "returned" => drops = <<>>
    /\ apc = "dropped" =>
          /\ Len(drops) = aN
          /\ \A j \in 1..Len(drops) : drops[j] = Dropped(inner[j], j) /\ drops[j].init

-----------------------------------------------------------------------------
(* Rejected lengths *)

\* the bytes of val with its length (below 2^24) under the policy sb, for a
\* length the policy accepts
SizedBytes(sb, ty, val) ==
    (IF sb = "Var" THEN varint_write(U64FromNat(Len(val)))
     ELSE [k \in 1..PrefixWidth(sb) |->
              IF k <= 3 THEN (Len(val) \div Pow2(8 * (k - 1))) % 256 ELSE 0])
    \o ElementBytes(ty, val)

\* C29: when serialize_sized returns SizeExceeded it has written no byte,
\* neither of the length nor of an element: the writer holds what it held
\* before the call, nothing for a first call and the bytes of the first call
\* for a second one.
RejectedLengthWritesNothing ==
    /\ (zpc = "sized_written" /\ zsink.err = "SizeExceeded") =>
          zsink.out = <<>> /\ zsink.calls = 0
    /\ (zpc = "sized_twice" /\ zsink.err = "SizeExceeded") =>
          zsink.out = SizedBytes(zsb, zty, zval)
    /\ (zpc = "sized_twice" /\ zsink.err = "None") =>
          \E sb2 \in SizeBytesPolicies :
              zsink.out = SizedBytes(zsb, zty, zval) \o SizedBytes(sb2, zty, zval)

RejectedLengthWritesNothingWitness ==
    /\ zpc = "sized_twice" /\ zsb = "Two" /\ zty = TString /\ Len(zval) = 256
    /\ zsink.err = "SizeExceeded" /\ zsink.limit = "One"
    /\ zsink.found = U64FromNat(256)
    /\ Len(zsink.out) = 258

-----------------------------------------------------------------------------
(* Shortest varints *)

\* the number of bits of x: the place of its highest bit set, 0 for 0
BitLength(x) ==
    IF x = U64Zero THEN 0
    ELSE CHOOSE i \in 1..U64Bits : x[i] = 1 /\ \A j \in (i + 1)..U64Bits : x[j] = 0

\* C30: varint::write emits max(1, ceil(bitlength(x) / 7)) bytes for every
\* u64 x: the shortest encoding, so that an encoding of more than one byte
\* does not end in the byte 0.
VarintMinimal ==
    vpc \in {"written", "reread"} =>
        /\ Len(vsink) = (IF BitLength(vx) = 0 THEN 1 ELSE (BitLength(vx) + 6) \div 7)
        /\ Len(vsink) > 1 => vsink[Len(vsink)] # 0

VarintMinimalWitness ==
    /\ vpc = "written" /\ BitLength(vx) = 8 /\ vsink = <<128, 1>>

====
